---- MODULE Spec2Model ----
(***************************************************************************)
(* Model of sqr: the database worker thread and its message protocol       *)
(* (src/src/worker/mod.rs), the application state machine that drives it   *)
(* (src/src/app/mod.rs, src/src/app/state.rs, src/src/app/text_editor.rs)  *)
(* and the main loop that connects the two (src/src/main.rs).              *)
(*                                                                         *)
(* Strings that the program inspects character by character (buffers,      *)
(* table names, cell texts) are sequences of one-character strings;        *)
(* cursor positions and indexes are 0-based as in the source.  Option<T>   *)
(* is a sequence of length 0 (None) or 1 (Some).                           *)
(***************************************************************************)
EXTENDS Integers, Sequences, FiniteSets, TLC

\* ------------------------------------------------------------------ bounds
\* total number of commands the UI may enqueue (Shutdown excluded)
MaxCmds == 6
\* longest text a buffer may reach by typing
MaxBuf == 1
\* highest page index reachable with the Right key
MaxPage == 1
\* number of database calls that may fail
MaxFail == 1
\* commands that may be in flight (queued, executing or answered but not drained)
MaxInFlight == 2

\* ------------------------------------------------------- program constants
\* --page-size given on the command line
PageSize == 2
\* max_rows of every ExecuteQuery
QueryMaxRows == 1000
\* full-edit promotion threshold
FullEditLen == 50
\* display widths used when seeding the edit buffer
DisplayFull == 10000
DisplayShort == 1000

\* ------------------------------------------------------------ Option, misc
None == <<>>
Some(x) == <<x>>
IsSome(o) == Len(o) = 1
Unwrap(o) == o[1]

NL == "\n"
Whitespace == {" ", NL, "\t"}

Min(a, b) == IF a <= b THEN a ELSE b
SetMax(S) == CHOOSE x \in S : \A y \in S : y <= x
SetMin(S) == CHOOSE x \in S : \A y \in S : x <= y

\* s[from..to) with 0-based bounds, as a Rust slice
Slice(s, from, to) == SubSeq(s, from + 1, to)
\* String::insert(pos, c)
Insert(s, pos, c) == Slice(s, 0, pos) \o <<c>> \o Slice(s, pos, Len(s))
\* String::remove(pos)
Remove(s, pos) == Slice(s, 0, pos) \o Slice(s, pos + 1, Len(s))
\* String::drain(from..to)
Drain(s, from, to) == Slice(s, 0, from) \o Slice(s, to, Len(s))
Contains(s, c) == \E i \in 1..Len(s) : s[i] = c
\* a character outside ASCII: U+00E9 takes two bytes in UTF-8
EAcute == "U+00E9"
\* char::len_utf8 on the characters the model uses
len_utf8(c) == IF c = EAcute THEN 2 ELSE 1
\* String::len(): the length of the text in bytes
RECURSIVE ByteLen(_)
ByteLen(s) == IF s = <<>> THEN 0 ELSE len_utf8(Head(s)) + ByteLen(Tail(s))
\* str::trim().is_empty()
TrimIsEmpty(s) == \A i \in 1..Len(s) : s[i] \in Whitespace

\* ------------------------------------------------------------ the database
\* Value::display(max_len) of src/src/types/query.rs
Digits == <<"0", "1", "2", "3", "4", "5", "6", "7", "8", "9">>
RECURSIVE NatToString(_)
NatToString(n) == IF n < 10 THEN <<Digits[n + 1]>>
                  ELSE NatToString(n \div 10) \o <<Digits[(n % 10) + 1]>>
IntToString(i) == IF i < 0 THEN <<"-">> \o NatToString(0 - i) ELSE NatToString(i)

VNull == [kind |-> "Null"]
VInt(i) == [kind |-> "Integer", i |-> i]
VText(t) == [kind |-> "Text", t |-> t]

display(v, max_len) ==
    CASE v.kind = "Null" -> <<"N", "U", "L", "L">>
      [] v.kind = "Integer" -> IntToString(v.i)
      [] v.kind = "Text" ->
            IF Len(v.t) > max_len
            THEN Slice(v.t, 0, IF max_len >= 3 THEN max_len - 3 ELSE 0) \o <<".", ".", ".">>
            ELSE v.t

\* the database file the worker's connection is opened on
TableAb == <<"A", "b">>
TableA == <<"a">>
TableC == <<"c">>
\* a table SQLite keeps for itself
TableSqlite == <<"s", "q", "l", "i", "t", "e", "_", "s">>
\* sqlite_master in the order of ORDER BY name
DbTables == <<TableAb, TableA, TableC, TableSqlite>>
DbColumns(t) ==
    IF t = TableAb THEN <<"id", "v">> ELSE IF t \in {TableA, TableC} THEN <<"k">> ELSE <<>>
DbRows(t) ==
    IF t = TableAb
    THEN << <<VInt(1), VText(<<"x">>)>>,
            <<VInt(2), VText(<<NL>>)>>,
            <<VInt(3), VText(<<>>)>> >>
    ELSE IF t = TableA THEN << <<VText(<<"y">>)>> >> ELSE <<>>

\* db::get_tables: name-ordered catalog with row counts, without the
\* sqlite_ tables unless include_internal
StartsWith(s, prefix) == Len(s) >= Len(prefix) /\ SubSeq(s, 1, Len(prefix)) = prefix
get_tables(d, include_internal) ==
    SelectSeq([i \in 1..Len(DbTables) |->
                 [name |-> DbTables[i], row_count |-> Some(Len(d[DbTables[i]].rows))]],
              LAMBDA t : include_internal
                         \/ ~StartsWith(t.name, <<"s", "q", "l", "i", "t", "e", "_">>))

\* the database file the connection is opened on: per table its columns, its
\* rows in the order of a scan of the table (rowid order; rows are never
\* inserted or deleted, so a row's rowid is its position), and the column a
\* secondary (UNIQUE) index is declared on, if any
DbInitial ==
    [t \in {DbTables[i] : i \in 1..Len(DbTables)} |->
        [columns |-> DbColumns(t), rows |-> DbRows(t), index |-> None]]

\* a paged read that binds the offset and the limit the wrong way round
get_table_rows_swapped(d, t, limit, offset) ==
    LET all == d[t].rows
        last == Min(Len(all), limit + offset)
    IN [columns |-> d[t].columns,
        rows |-> IF limit >= Len(all) THEN <<>> ELSE Slice(all, limit, last),
        truncated |-> FALSE,
        of_table |-> t, of_offset |-> offset]

\* db::query::get_table_rows: SELECT * FROM t LIMIT limit OFFSET offset
get_table_rows(d, t, limit, offset) ==
    LET all == d[t].rows
        last == Min(Len(all), offset + limit)
    IN [columns |-> d[t].columns,
        rows |-> IF offset >= Len(all) THEN <<>> ELSE Slice(all, offset, last),
        truncated |-> FALSE,
        of_table |-> t, of_offset |-> offset]

\* result of an ad-hoc query (the SQL dialect is not modelled)
QueryRows == [columns |-> <<"c">>, rows |-> << <<VInt(1)>> >>, truncated |-> FALSE,
              of_table |-> <<>>, of_offset |-> 0]

\* the query text that stands for SELECT * FROM t
SelectAll(t) == <<"*">> \o t

\* the result set the prepared statement of a query steps through
query_rows(d, query) ==
    IF query # <<>> /\ Head(query) = "*" /\ Tail(query) \in DOMAIN d
    THEN [columns |-> d[Tail(query)].columns, rows |-> d[Tail(query)].rows]
    ELSE [columns |-> QueryRows.columns, rows |-> QueryRows.rows]

\* max_rows.unwrap_or(1000)
DefaultMaxRows == 1000

\* a row loop that sets truncated as soon as the cap is reached
collect_rows_flags_full(rest, limit) ==
    LET pushed == Min(Len(rest), limit)
    IN [rows |-> SubSeq(rest, 1, pushed), truncated |-> pushed >= limit]

\* the row loop of db::query::execute_query: each row the iterator yields is
\* pushed unless the cap is already reached, in which case the loop stops
\* with truncated set; the loop so leaves after min(n, limit) pushes, and by
\* the cap exactly when a further row was yielded
collect_rows(rest, limit) ==
    LET pushed == Min(Len(rest), limit)
    IN [rows |-> SubSeq(rest, 1, pushed), truncated |-> pushed < Len(rest)]

\* db::query::execute_query
execute_query_rows(d, query, max_rows) ==
    LET limit == IF IsSome(max_rows) THEN Unwrap(max_rows) ELSE DefaultMaxRows
        got == collect_rows(query_rows(d, query).rows, limit)
    IN [columns |-> query_rows(d, query).columns,
        rows |-> got.rows,
        truncated |-> got.truncated,
        of_table |-> <<>>, of_offset |-> 0]

\* a REAL value, kept as the literal that denotes it
VReal(lit) == [kind |-> "Real", lit |-> lit]

\* str::trim
RECURSIVE TrimStart(_)
TrimStart(s) == IF s # <<>> /\ Head(s) \in Whitespace THEN TrimStart(Tail(s)) ELSE s
RECURSIVE TrimEnd(_)
TrimEnd(s) ==
    IF s # <<>> /\ s[Len(s)] \in Whitespace THEN TrimEnd(SubSeq(s, 1, Len(s) - 1)) ELSE s
Trim(s) == TrimEnd(TrimStart(s))

\* str::eq_ignore_ascii_case(word) for a word given in lower case
UpperChar(c) ==
    CASE c = "n" -> "N" [] c = "u" -> "U" [] c = "l" -> "L" [] c = "i" -> "I"
      [] c = "f" -> "F" [] c = "a" -> "A" [] c = "t" -> "T" [] c = "y" -> "Y"
      [] OTHER -> c
EqIgnoreCase(s, word) ==
    /\ Len(s) = Len(word)
    /\ \A i \in 1..Len(s) : s[i] \in {word[i], UpperChar(word[i])}

IsDigits(s) == \A i \in 1..Len(s) : \E k \in 1..10 : s[i] = Digits[k]
DigitValue(c) == (CHOOSE k \in 1..10 : Digits[k] = c) - 1
RECURSIVE ParseNat(_)
ParseNat(s) ==
    IF s = <<>> THEN 0 ELSE 10 * ParseNat(SubSeq(s, 1, Len(s) - 1)) + DigitValue(s[Len(s)])
Signed(s) == s # <<>> /\ Head(s) \in {"+", "-"}
Unsigned(s) == IF Signed(s) THEN Tail(s) ELSE s

\* str::parse::<i64>: an optional sign and at least one digit (the texts of
\* the model are too short to overflow)
parse_i64(s) ==
    IF Unsigned(s) # <<>> /\ IsDigits(Unsigned(s))
    THEN Some(IF Head(s) = "-" THEN 0 - ParseNat(Unsigned(s)) ELSE ParseNat(Unsigned(s)))
    ELSE None

\* str::parse::<f64>: "Finite" for an optional sign, digits and at most one
\* point with a digit somewhere, "NonFinite" for inf, infinity and nan in any
\* case, "Err" otherwise (exponents are not drawn by the model)
parse_f64(s) ==
    LET u == Unsigned(s)
        points == {i \in 1..Len(u) : u[i] = "."}
        digits == {i \in 1..Len(u) : \E k \in 1..10 : u[i] = Digits[k]}
    IN IF \/ EqIgnoreCase(u, <<"i", "n", "f">>)
          \/ EqIgnoreCase(u, <<"i", "n", "f", "i", "n", "i", "t", "y">>)
          \/ EqIgnoreCase(u, <<"n", "a", "n">>)
       THEN "NonFinite"
       ELSE IF /\ digits # {}
               /\ Cardinality(points) <= 1
               /\ points \cup digits = 1..Len(u)
       THEN "Finite"
       ELSE "Err"

\* new_value.replace('\'', "''") between quotes
RECURSIVE DoubleQuotes(_)
DoubleQuotes(s) ==
    IF s = <<>> THEN <<>>
    ELSE IF Head(s) = "'" THEN <<"'", "'">> \o DoubleQuotes(Tail(s))
    ELSE <<Head(s)>> \o DoubleQuotes(Tail(s))
SqlQuote(s) == <<"'">> \o DoubleQuotes(s) \o <<"'">>

\* the text a quoted SQL literal denotes
RECURSIVE HalveQuotes(_)
HalveQuotes(s) ==
    IF s = <<>> THEN <<>>
    ELSE IF Head(s) = "'" /\ Len(s) >= 2 /\ s[2] = "'"
         THEN <<"'">> \o HalveQuotes(Tail(Tail(s)))
         ELSE <<Head(s)>> \o HalveQuotes(Tail(s))
SqlText(literal) == HalveQuotes(SubSeq(literal, 2, Len(literal) - 1))

\* the sql_value text update_cell builds from new_value
sql_value(new_value) ==
    IF Trim(new_value) = <<>> \/ EqIgnoreCase(Trim(new_value), <<"n", "u", "l", "l">>)
    THEN <<"N", "U", "L", "L">>
    ELSE IF IsSome(parse_i64(new_value)) THEN new_value
    ELSE IF parse_f64(new_value) # "Err" THEN new_value
    ELSE SqlQuote(new_value)

\* the value the expression sql_value evaluates to in the UPDATE statement;
\* None when it is not an expression of SQL (inf, nan name no column)
evaluate(literal) ==
    IF literal = <<"N", "U", "L", "L">> THEN Some(VNull)
    ELSE IF Head(literal) = "'" THEN Some(VText(SqlText(literal)))
    ELSE IF IsSome(parse_i64(literal)) THEN Some(VInt(Unwrap(parse_i64(literal))))
    ELSE IF parse_f64(literal) = "Finite" THEN Some(VReal(literal))
    ELSE None

\* the order of SQLite's values: NULL, then numbers, then text
Collation ==
    <<NL, " ", "'", "*", "+", "-", ".", "0", "1", "2", "3", "4", "5", "6", "7", "8", "9",
      "A", "L", "N", "U", "a", "b", "c", "k", "v", "x", "y", EAcute>>
CharRank(c) ==
    IF \E k \in 1..Len(Collation) : Collation[k] = c
    THEN CHOOSE k \in 1..Len(Collation) : Collation[k] = c
    ELSE 0
RECURSIVE TextLess(_, _)
TextLess(a, b) ==
    IF b = <<>> THEN FALSE
    ELSE IF a = <<>> THEN TRUE
    ELSE IF CharRank(Head(a)) # CharRank(Head(b)) THEN CharRank(Head(a)) < CharRank(Head(b))
    ELSE TextLess(Tail(a), Tail(b))
ValueClass(v) == CASE v.kind = "Null" -> 0 [] v.kind = "Text" -> 2 [] OTHER -> 1
\* a number in thousandths (the REAL literals of the model have at most three
\* digits after the point)
Thousandths(v) ==
    IF v.kind = "Integer" THEN 1000 * v.i
    ELSE LET u == Unsigned(v.lit)
             point == IF Contains(u, ".") THEN CHOOSE i \in 1..Len(u) : u[i] = "."
                      ELSE Len(u) + 1
             frac == SubSeq(SubSeq(u, point + 1, Len(u)) \o <<"0", "0", "0">>, 1, 3)
             magnitude == 1000 * ParseNat(SubSeq(u, 1, point - 1)) + ParseNat(frac)
         IN IF Head(v.lit) = "-" THEN 0 - magnitude ELSE magnitude
ValueLess(a, b) ==
    \/ ValueClass(a) < ValueClass(b)
    \/ /\ ValueClass(a) = 1 /\ ValueClass(b) = 1 /\ Thousandths(a) < Thousandths(b)
    \/ /\ a.kind = "Text" /\ b.kind = "Text" /\ TextLess(a.t, b.t)

\* SELECT ROWID FROM t LIMIT 1 OFFSET row_index: SQLite scans the narrowest
\* b-tree that holds the rowid, which is the secondary index when the table
\* has one (rows by indexed value, then rowid) and the table itself otherwise
rowid_at(table, row_index) ==
    LET n == Len(table.rows)
        key(r) == table.rows[r][Unwrap(table.index) + 1]
        before(q, r) == ValueLess(key(q), key(r)) \/ (~ValueLess(key(r), key(q)) /\ q < r)
        place(r) == Cardinality({q \in 1..n : before(q, r)})
    IN IF row_index >= n THEN None
       ELSE IF IsSome(table.index)
       THEN Some(CHOOSE r \in 1..n : place(r) = row_index)
       ELSE Some(row_index + 1)

\* db::query::update_cell: the rowid query, then UPDATE .. WHERE ROWID = rowid
update_cell(d, table_name, row_index, column_name, new_value) ==
    LET table == d[table_name]
        rowid == rowid_at(table, row_index)
        value == evaluate(sql_value(new_value))
        col == CHOOSE c \in 1..Len(table.columns) : table.columns[c] = column_name
    IN IF /\ IsSome(rowid)
          /\ \E c \in 1..Len(table.columns) : table.columns[c] = column_name
          /\ IsSome(value)
       THEN [ok |-> TRUE,
             db |-> [d EXCEPT ![table_name].rows[Unwrap(rowid)][col] = Unwrap(value)]]
       ELSE [ok |-> FALSE, db |-> d]


\* ------------------------------------------------ AppState (app/state.rs)
\* AppState::new(page_size)
AppStateNew(page_size) ==
    [tables |-> <<>>, selected_table_index |-> 0, table_filter |-> <<>>,
     show_internal_tables |-> FALSE, tables_loading |-> FALSE,
     view_mode |-> "Rows", current_table |-> None, table_rows |-> None,
     current_page |-> 0, page_size |-> page_size, rows_loading |-> FALSE,
     sql_query |-> <<>>, query_result |-> None, query_error |-> None,
     query_loading |-> FALSE, table_info |-> None,
     schema_columns |-> <<>>, schema_indexes |-> <<>>, schema_foreign_keys |-> <<>>,
     schema_loading |-> FALSE, diagram_data |-> None, diagram_loading |-> FALSE,
     focus |-> "Content", show_help |-> FALSE, show_sql_editor |-> TRUE,
     edit_mode |-> FALSE, editing_row |-> None, editing_col |-> None,
     edit_buffer |-> <<>>, edit_cursor_pos |-> 0, full_edit_mode |-> FALSE,
     sql_cursor_pos |-> 0]

\* char::to_lowercase on the letters the model uses
LowerChar(c) == IF c = "A" THEN "a" ELSE IF c = "B" THEN "b" ELSE c
to_lowercase(s) == [i \in 1..Len(s) |-> LowerChar(s[i])]
\* str::contains(pattern)
ContainsStr(s, pat) ==
    \E i \in 0..(Len(s) - Len(pat)) : Slice(s, i, i + Len(pat)) = pat

RECURSIVE FilterSeq(_, _)
FilterSeq(s, flt) ==
    IF s = <<>> THEN <<>>
    ELSE IF ContainsStr(to_lowercase(Head(s).name), to_lowercase(flt))
         THEN <<Head(s)>> \o FilterSeq(Tail(s), flt)
         ELSE FilterSeq(Tail(s), flt)

\* AppState::filtered_tables
filtered_tables(st) ==
    IF st.table_filter = <<>> THEN st.tables ELSE FilterSeq(st.tables, st.table_filter)

\* AppState::selected_table
selected_table(st) ==
    LET filtered == filtered_tables(st)
    IN IF st.selected_table_index < Len(filtered)
       THEN Some(filtered[st.selected_table_index + 1].name) ELSE None

\* a move up that stops at the first entry instead of wrapping
move_up_saturating(st) ==
    LET filtered_len == Len(filtered_tables(st))
    IN IF filtered_len > 0 /\ st.selected_table_index > 0
       THEN [st EXCEPT !.selected_table_index = @ - 1]
       ELSE st

\* AppState::move_up
move_up(st) ==
    LET filtered_len == Len(filtered_tables(st))
    IN IF filtered_len > 0
       THEN [st EXCEPT !.selected_table_index = (@ + filtered_len - 1) % filtered_len]
       ELSE st

\* AppState::move_down
move_down(st) ==
    LET filtered_len == Len(filtered_tables(st))
    IN IF filtered_len > 0
       THEN [st EXCEPT !.selected_table_index = (@ + 1) % filtered_len]
       ELSE st

\* a forward cycle that visits the Info pane
next_pane_through_info(st) ==
    [st EXCEPT !.focus = CASE @ = "Tables" -> "Content"
                           [] @ = "Content" -> "Info"
                           [] @ = "Info" -> "Tables"]

\* AppState::next_pane
next_pane(st) ==
    [st EXCEPT !.focus = CASE @ = "Tables" -> "Content"
                           [] @ = "Content" -> "Tables"
                           [] @ = "Info" -> "Tables"]

\* AppState::prev_pane
prev_pane(st) ==
    [st EXCEPT !.focus = CASE @ = "Tables" -> "Content"
                           [] @ = "Content" -> "Tables"
                           [] @ = "Info" -> "Content"]

\* a toggle that goes from Rows straight to Diagram
toggle_view_mode_skips_schema(st) ==
    [st EXCEPT !.view_mode = IF @ = "Rows" THEN "Diagram" ELSE "Rows"]

\* AppState::toggle_view_mode
toggle_view_mode(st) ==
    [st EXCEPT !.view_mode = CASE @ = "Rows" -> "Schema"
                               [] @ = "Schema" -> "Diagram"
                               [] @ = "Diagram" -> "Rows"
                               [] @ = "Query" -> "Rows"]

\* AppState::next_page
next_page(st) == [st EXCEPT !.current_page = @ + 1]

\* AppState::prev_page
prev_page(st) == IF st.current_page > 0 THEN [st EXCEPT !.current_page = @ - 1] ELSE st

\* ------------------------------------- text editor (app/text_editor.rs)
\* key events: code, the character of a Char code, and the modifier set
Key(code, ch, mods) == [code |-> code, ch |-> ch, mods |-> mods]

\* buffer[..pos].rfind('\n').map(|i| i + 1).unwrap_or(0)
LineStart(buffer, pos) == SetMax({0} \cup {j \in 1..pos : buffer[j] = NL})
\* buffer[pos..].find('\n').map(|i| pos + i).unwrap_or(buffer.len())
LineEnd(buffer, pos) ==
    SetMin({Len(buffer)} \cup {j - 1 : j \in {k \in (pos + 1)..Len(buffer) : buffer[k] = NL}})

RECURSIVE SkipBack(_, _, _)
\* the two backward scans of Ctrl+W; ws selects the class being skipped
SkipBack(buffer, new_pos, ws) ==
    IF new_pos > 0 /\ ((buffer[new_pos] \in Whitespace) = ws)
    THEN SkipBack(buffer, new_pos - 1, ws) ELSE new_pos

\* handle_text_editor_input: the new buffer and cursor and the handled flag
handle_text_editor_input(event, buffer, cursor_pos, supports_line_navigation) ==
    LET pos == Min(cursor_pos, Len(buffer))
        R(b, c, h) == [buffer |-> b, cursor_pos |-> c, handled |-> h]
        line_start == LineStart(buffer, pos)
        line_end == LineEnd(buffer, pos)
    IN CASE event.code = "Char" ->
              IF "CONTROL" \in event.mods
              THEN CASE event.ch = "u" ->
                          IF supports_line_navigation
                          THEN R(Drain(buffer, line_start, pos), line_start, TRUE)
                          ELSE R(Drain(buffer, 0, pos), 0, TRUE)
                     [] event.ch = "k" ->
                          IF supports_line_navigation
                          THEN R(Drain(buffer, pos, line_end), cursor_pos, TRUE)
                          ELSE R(Slice(buffer, 0, pos), cursor_pos, TRUE)
                     [] event.ch = "a" -> R(buffer, 0, TRUE)
                     [] event.ch = "e" -> R(buffer, Len(buffer), TRUE)
                     [] event.ch = "w" ->
                          IF pos > 0
                          THEN LET new_pos == SkipBack(buffer, SkipBack(buffer, pos, TRUE), FALSE)
                               IN R(Drain(buffer, new_pos, pos), new_pos, TRUE)
                          ELSE R(buffer, cursor_pos, TRUE)
                     [] event.ch = "d" ->
                          IF pos < Len(buffer) THEN R(Remove(buffer, pos), cursor_pos, TRUE)
                          ELSE R(buffer, cursor_pos, TRUE)
                     [] OTHER -> R(buffer, cursor_pos, FALSE)
              ELSE R(Insert(buffer, pos, event.ch), pos + 1, TRUE)
         [] event.code = "Backspace" ->
              IF pos > 0 THEN R(Remove(buffer, pos - 1), pos - 1, TRUE)
              ELSE R(buffer, cursor_pos, TRUE)
         [] event.code = "Delete" ->
              IF pos < Len(buffer) THEN R(Remove(buffer, pos), cursor_pos, TRUE)
              ELSE R(buffer, cursor_pos, TRUE)
         [] event.code = "Left" ->
              R(buffer, IF pos > 0 THEN pos - 1 ELSE cursor_pos, TRUE)
         [] event.code = "Right" ->
              R(buffer, IF pos < Len(buffer) THEN pos + 1 ELSE cursor_pos, TRUE)
         [] event.code = "Home" ->
              R(buffer, IF supports_line_navigation THEN line_start ELSE 0, TRUE)
         [] event.code = "End" ->
              R(buffer, IF supports_line_navigation THEN line_end ELSE Len(buffer), TRUE)
         [] event.code = "Up" ->
              IF supports_line_navigation /\ pos > 0 /\ line_start > 0
              THEN LET prev_line_start == LineStart(buffer, line_start - 1)
                       prev_line_end == LineEnd(buffer, prev_line_start)
                       col == pos - line_start
                   IN R(buffer, Min(prev_line_start + col, prev_line_end), TRUE)
              ELSE R(buffer, cursor_pos, TRUE)
         [] event.code = "Down" ->
              IF supports_line_navigation /\ line_end < Len(buffer)
              THEN LET next_line_start == line_end + 1
                       next_line_end == LineEnd(buffer, next_line_start)
                       col == pos - line_start
                   IN R(buffer, Min(next_line_start + col, next_line_end), TRUE)
              ELSE R(buffer, cursor_pos, TRUE)
         [] OTHER -> R(buffer, cursor_pos, FALSE)

\* ------------------------------------------ worker protocol (worker/mod.rs)
\* WorkerMessage
LoadTables(include_internal) == [type |-> "LoadTables", include_internal |-> include_internal]
LoadTableRows(table_name, limit, offset) ==
    [type |-> "LoadTableRows", table_name |-> table_name, limit |-> limit, offset |-> offset]
ExecuteQuery(query, max_rows) == [type |-> "ExecuteQuery", query |-> query, max_rows |-> max_rows]
GetTableInfo(table_name) == [type |-> "GetTableInfo", table_name |-> table_name]
LoadSchema(table_name) == [type |-> "LoadSchema", table_name |-> table_name]
LoadDiagram == [type |-> "LoadDiagram"]
UpdateCell(table_name, row_index, column_name, new_value) ==
    [type |-> "UpdateCell", table_name |-> table_name, row_index |-> row_index,
     column_name |-> column_name, new_value |-> new_value]
Shutdown == [type |-> "Shutdown"]

\* WorkerResponse
TablesLoaded(tables) == [type |-> "TablesLoaded", tables |-> tables]
TableRowsLoaded(result) == [type |-> "TableRowsLoaded", result |-> result]
QueryExecuted(result) == [type |-> "QueryExecuted", result |-> result]
TableInfoLoaded(info) == [type |-> "TableInfoLoaded", info |-> info]
SchemaLoaded(columns, indexes, foreign_keys) ==
    [type |-> "SchemaLoaded", columns |-> columns, indexes |-> indexes,
     foreign_keys |-> foreign_keys]
DiagramLoaded(data) == [type |-> "DiagramLoaded", data |-> data]
Error(message) == [type |-> "Error", message |-> message]
CellUpdated == [type |-> "CellUpdated"]

\* --------------------------------------------------- App (app/mod.rs)
\* An App value threaded through a handler: the AppState, the messages the
\* handler has passed to Worker::send so far, should_quit, and whether the
\* worker still holds the receiving end of the command channel.
WithState(app, st) == [app EXCEPT !.state = st]

\* Worker::send: Err (nothing enqueued) once the worker's receiver is gone
send(app, message) ==
    IF app.worker_alive THEN [app EXCEPT !.sent = Append(@, message)] ELSE app

\* App::load_tables
load_tables(app) ==
    send(WithState(app, [app.state EXCEPT !.tables_loading = TRUE]),
         LoadTables(app.state.show_internal_tables))

\* App::load_table
load_table(app, table_name) ==
    LET st == [app.state EXCEPT !.current_table = Some(table_name),
                                !.rows_loading = TRUE,
                                !.table_rows = None]
        offset == st.current_page * st.page_size
    IN send(send(WithState(app, st), LoadTableRows(table_name, st.page_size, offset)),
            GetTableInfo(table_name))

\* `if let Some(table_name) = current_table { self.load_table(table_name) }`
reload_current_table(app) ==
    IF IsSome(app.state.current_table)
    THEN load_table(app, Unwrap(app.state.current_table)) ELSE app

\* App::load_schema
load_schema(app, table_name) ==
    send(WithState(app, [app.state EXCEPT !.schema_loading = TRUE,
                                          !.schema_columns = <<>>,
                                          !.schema_indexes = <<>>,
                                          !.schema_foreign_keys = <<>>]),
         LoadSchema(table_name))

\* the diagram request shared by the 'd' and 's' arms
load_diagram(app) ==
    IF app.state.diagram_data = None /\ ~app.state.diagram_loading
    THEN send(WithState(app, [app.state EXCEPT !.diagram_loading = TRUE]), LoadDiagram)
    ELSE app

\* execute_query without a row cap
execute_query_uncapped(app) ==
    IF TrimIsEmpty(app.state.sql_query) THEN app
    ELSE send(WithState(app, [app.state EXCEPT !.query_loading = TRUE,
                                                !.query_error = None]),
              ExecuteQuery(app.state.sql_query, None))

\* App::execute_query
execute_query(app) ==
    IF TrimIsEmpty(app.state.sql_query) THEN app
    ELSE send(WithState(app, [app.state EXCEPT !.query_loading = TRUE,
                                                !.query_error = None]),
              ExecuteQuery(app.state.sql_query, Some(QueryMaxRows)))

\* full_value.len() > 50 || full_value.contains('\n')
promotes(full_value) == ByteLen(full_value) > FullEditLen \/ Contains(full_value, NL)

\* rows.get(row).and_then(|r| r.get(col))
cell(st, row, col) ==
    IF IsSome(st.table_rows) /\ row < Len(Unwrap(st.table_rows).rows)
       /\ col < Len(Unwrap(st.table_rows).rows[row + 1])
    THEN Some(Unwrap(st.table_rows).rows[row + 1][col + 1]) ELSE None

\* the reseeding block of enter_edit_mode and of the Up and Down arms
seed_full(st, row, col) ==
    IF IsSome(cell(st, row, col))
    THEN LET full_value == display(Unwrap(cell(st, row, col)), DisplayFull)
         IN [st EXCEPT !.edit_buffer = full_value,
                       !.edit_cursor_pos = ByteLen(full_value),
                       !.full_edit_mode = promotes(full_value)]
    ELSE st

\* the reseeding block of the Left and Right arms
seed_short(st, row, col) ==
    IF IsSome(cell(st, row, col))
    THEN [st EXCEPT !.edit_buffer = display(Unwrap(cell(st, row, col)), DisplayShort)]
    ELSE st

\* edit mode entered without looking at the loaded rows and columns
enter_edit_mode_unchecked(app) ==
    LET st == app.state
    IN IF IsSome(st.table_rows)
       THEN WithState(app, seed_full([st EXCEPT !.edit_mode = TRUE,
                                                !.editing_row = Some(0),
                                                !.editing_col = Some(0)], 0, 0))
       ELSE app

\* App::enter_edit_mode
enter_edit_mode(app) ==
    LET st == app.state
    IN IF IsSome(st.table_rows) /\ Unwrap(st.table_rows).rows # <<>>
          /\ Unwrap(st.table_rows).columns # <<>>
       THEN WithState(app, seed_full([st EXCEPT !.edit_mode = TRUE,
                                                !.editing_row = Some(0),
                                                !.editing_col = Some(0)], 0, 0))
       ELSE app

\* save_edited_cell sending the row index within the page
save_edited_cell_page_row(app) ==
    LET st == [app.state EXCEPT !.query_error = None]
        fail(msg) == WithState(app, [st EXCEPT !.query_error = Some(msg)])
    IN IF IsSome(st.editing_row) /\ IsSome(st.editing_col) /\ IsSome(st.current_table)
       THEN IF IsSome(st.table_rows)
            THEN IF Unwrap(st.editing_col) < Len(Unwrap(st.table_rows).columns)
                 THEN IF app.worker_alive
                      THEN send(WithState(app, st),
                                UpdateCell(Unwrap(st.current_table), Unwrap(st.editing_row),
                                           Unwrap(st.table_rows).columns[Unwrap(st.editing_col) + 1],
                                           st.edit_buffer))
                      ELSE fail("Failed to send update request")
                 ELSE fail("Invalid column index")
            ELSE fail("No table data available")
       ELSE fail("Invalid edit state: missing row, column, or table name")

\* App::save_edited_cell
save_edited_cell(app) ==
    LET st == [app.state EXCEPT !.query_error = None]
        fail(msg) == WithState(app, [st EXCEPT !.query_error = Some(msg)])
    IN IF IsSome(st.editing_row) /\ IsSome(st.editing_col) /\ IsSome(st.current_table)
       THEN IF IsSome(st.table_rows)
            THEN IF Unwrap(st.editing_col) < Len(Unwrap(st.table_rows).columns)
                 THEN LET column_name == Unwrap(st.table_rows).columns[Unwrap(st.editing_col) + 1]
                          new_value == st.edit_buffer
                          actual_row_index ==
                              st.current_page * st.page_size + Unwrap(st.editing_row)
                      IN IF app.worker_alive
                         THEN send(WithState(app, st),
                                   UpdateCell(Unwrap(st.current_table), actual_row_index,
                                              column_name, new_value))
                         ELSE fail("Failed to send update request")
                 ELSE fail("Invalid column index")
            ELSE fail("No table data available")
       ELSE fail("Invalid edit state: missing row, column, or table name")

\* the CellUpdated arm with the reload left out
apply_cell_updated_no_reload(app) ==
    WithState(app, [app.state EXCEPT !.edit_mode = FALSE,
                                     !.editing_row = None,
                                     !.editing_col = None,
                                     !.edit_buffer = <<>>,
                                     !.edit_cursor_pos = 0,
                                     !.full_edit_mode = FALSE])

\* the WorkerResponse::CellUpdated arm of App::process_worker_responses
apply_cell_updated(app) ==
    LET reloaded == reload_current_table(app)
    IN WithState(reloaded, [reloaded.state EXCEPT !.edit_mode = FALSE,
                                                  !.editing_row = None,
                                                  !.editing_col = None,
                                                  !.edit_buffer = <<>>,
                                                  !.edit_cursor_pos = 0,
                                                  !.full_edit_mode = FALSE])

\* the Error arm clearing every loading flag
apply_error_clears_all(st, message) ==
    [st EXCEPT !.query_error = Some(message),
               !.query_loading = FALSE,
               !.rows_loading = FALSE,
               !.tables_loading = FALSE,
               !.schema_loading = FALSE,
               !.diagram_loading = FALSE]

\* the Error arm leaving edit mode as well
apply_error_leaves_edit(st, message) ==
    LET withErr == [st EXCEPT !.query_error = Some(message),
                              !.edit_mode = FALSE, !.full_edit_mode = FALSE,
                              !.editing_row = None, !.editing_col = None,
                              !.edit_buffer = <<>>, !.edit_cursor_pos = 0]
    IN IF st.query_loading THEN [withErr EXCEPT !.query_loading = FALSE]
       ELSE IF st.rows_loading THEN [withErr EXCEPT !.rows_loading = FALSE]
       ELSE IF st.tables_loading THEN [withErr EXCEPT !.tables_loading = FALSE]
       ELSE IF st.schema_loading THEN [withErr EXCEPT !.schema_loading = FALSE]
       ELSE IF st.diagram_loading THEN [withErr EXCEPT !.diagram_loading = FALSE]
       ELSE withErr

\* the WorkerResponse::Error arm of App::process_worker_responses
apply_error(st, message) ==
    LET withErr == [st EXCEPT !.query_error = Some(message)]
    IN IF st.query_loading THEN [withErr EXCEPT !.query_loading = FALSE]
       ELSE IF st.rows_loading THEN [withErr EXCEPT !.rows_loading = FALSE]
       ELSE IF st.tables_loading THEN [withErr EXCEPT !.tables_loading = FALSE]
       ELSE IF st.schema_loading THEN [withErr EXCEPT !.schema_loading = FALSE]
       ELSE IF st.diagram_loading THEN [withErr EXCEPT !.diagram_loading = FALSE]
       ELSE withErr

\* one iteration of the loop of App::process_worker_responses
process_worker_response(app, response) ==
    LET st == app.state
    IN CASE response.type = "TablesLoaded" ->
              WithState(app, [st EXCEPT !.tables = response.tables,
                                        !.tables_loading = FALSE])
         [] response.type = "TableRowsLoaded" ->
              WithState(app, [st EXCEPT !.table_rows = Some(response.result),
                                        !.rows_loading = FALSE])
         [] response.type = "QueryExecuted" ->
              WithState(app, [st EXCEPT !.query_result = Some(response.result),
                                        !.query_error = None,
                                        !.query_loading = FALSE,
                                        !.view_mode = "Query"])
         [] response.type = "TableInfoLoaded" ->
              WithState(app, [st EXCEPT !.table_info = Some(response.info)])
         [] response.type = "SchemaLoaded" ->
              WithState(app, [st EXCEPT !.schema_columns = response.columns,
                                        !.schema_indexes = response.indexes,
                                        !.schema_foreign_keys = response.foreign_keys,
                                        !.schema_loading = FALSE])
         [] response.type = "DiagramLoaded" ->
              WithState(app, [st EXCEPT !.diagram_data = Some(response.data),
                                        !.diagram_loading = FALSE])
         [] response.type = "CellUpdated" -> apply_cell_updated(app)
         [] response.type = "Error" ->
              WithState(app, apply_error(st, response.message))

\* handle_text_editor_input applied to the cell edit buffer
edit_text_input(st, event) ==
    LET r == handle_text_editor_input(event, st.edit_buffer, st.edit_cursor_pos, TRUE)
    IN [st EXCEPT !.edit_buffer = r.buffer, !.edit_cursor_pos = r.cursor_pos]

\* handle_text_editor_input applied to the SQL editor buffer
sql_text_input(st, event) ==
    LET r == handle_text_editor_input(event, st.sql_query, st.sql_cursor_pos, TRUE)
    IN [st EXCEPT !.sql_query = r.buffer, !.sql_cursor_pos = r.cursor_pos]

\* closing the SQL editor while keeping the query result
close_sql_editor_keeps_result(app) ==
    LET st == [app.state EXCEPT !.show_sql_editor = FALSE,
                                !.sql_query = <<>>,
                                !.sql_cursor_pos = 0,
                                !.query_error = None]
    IN IF st.view_mode = "Query"
       THEN reload_current_table(WithState(app, [st EXCEPT !.view_mode = "Rows"]))
       ELSE WithState(app, st)

\* closing the SQL editor: shared by the 'e' and Esc arms
close_sql_editor(app) ==
    LET st == [app.state EXCEPT !.show_sql_editor = FALSE,
                                !.sql_query = <<>>,
                                !.sql_cursor_pos = 0,
                                !.query_result = None,
                                !.query_error = None]
    IN IF st.view_mode = "Query"
       THEN reload_current_table(WithState(app, [st EXCEPT !.view_mode = "Rows"]))
       ELSE WithState(app, st)

\* KeyCode::Up arm
key_up(app) ==
    LET st == app.state
    IN IF st.full_edit_mode THEN app
       ELSE IF st.edit_mode /\ ~st.full_edit_mode
       THEN IF IsSome(st.editing_row) /\ Unwrap(st.editing_row) > 0
            THEN LET row == Unwrap(st.editing_row)
                     moved == [st EXCEPT !.editing_row = Some(row - 1)]
                 IN IF IsSome(st.editing_col)
                    THEN WithState(app, seed_full(moved, row - 1, Unwrap(st.editing_col)))
                    ELSE WithState(app, moved)
            ELSE app
       ELSE IF st.focus = "Tables" THEN WithState(app, move_up(st))
       ELSE app

\* KeyCode::Down arm
key_down(app) ==
    LET st == app.state
    IN IF st.full_edit_mode THEN app
       ELSE IF st.edit_mode /\ ~st.full_edit_mode
       THEN IF IsSome(st.editing_row) /\ IsSome(st.table_rows)
               /\ Unwrap(st.editing_row) + 1 < Len(Unwrap(st.table_rows).rows)
            THEN LET row == Unwrap(st.editing_row)
                     moved == [st EXCEPT !.editing_row = Some(row + 1)]
                 IN IF IsSome(st.editing_col)
                    THEN WithState(app, seed_full(moved, row + 1, Unwrap(st.editing_col)))
                    ELSE WithState(app, moved)
            ELSE app
       ELSE IF st.focus = "Tables" THEN WithState(app, move_down(st))
       ELSE app

\* KeyCode::Enter arm
key_enter(app, event) ==
    LET st == app.state
    IN IF st.full_edit_mode
       THEN IF "SHIFT" \in event.mods
            THEN LET pos == Min(st.edit_cursor_pos, Len(st.edit_buffer))
                 IN WithState(app, [st EXCEPT !.edit_buffer = Insert(@, pos, NL),
                                              !.edit_cursor_pos = pos + 1])
            ELSE save_edited_cell(app)
       ELSE IF st.edit_mode THEN save_edited_cell(app)
       ELSE IF st.show_sql_editor /\ st.focus = "Content"
       THEN IF "SHIFT" \in event.mods
            THEN LET pos == Min(st.sql_cursor_pos, Len(st.sql_query))
                 IN WithState(app, [st EXCEPT !.sql_query = Insert(@, pos, NL),
                                              !.sql_cursor_pos = pos + 1])
            ELSE execute_query(app)
       ELSE IF st.focus = "Tables"
       THEN IF IsSome(selected_table(st))
            THEN IF st.view_mode = "Schema"
                 THEN load_schema(app, Unwrap(selected_table(st)))
                 ELSE load_table(app, Unwrap(selected_table(st)))
            ELSE app
       ELSE IF st.focus = "Content" /\ st.view_mode = "Rows" THEN enter_edit_mode(app)
       ELSE app

\* KeyCode::Char('d') arm
key_d(app) ==
    load_diagram(WithState(app, [app.state EXCEPT !.focus = "Content",
                                                  !.view_mode = "Diagram"]))

\* KeyCode::Char('s') arm
key_s(app) ==
    IF app.state.focus = "Content"
    THEN LET toggled == WithState(app, toggle_view_mode(app.state))
         IN CASE toggled.state.view_mode = "Schema" ->
                   IF IsSome(toggled.state.current_table)
                   THEN load_schema(toggled, Unwrap(toggled.state.current_table))
                   ELSE toggled
              [] toggled.state.view_mode = "Diagram" -> load_diagram(toggled)
              [] toggled.state.view_mode = "Rows" -> reload_current_table(toggled)
              [] OTHER -> toggled
    ELSE app

\* KeyCode::Char('c') with CONTROL arm
key_ctrl_c(app) ==
    LET st == [app.state EXCEPT !.query_result = None, !.query_error = None]
    IN IF st.view_mode = "Query"
       THEN reload_current_table(WithState(app, [st EXCEPT !.view_mode = "Rows"]))
       ELSE WithState(app, st)

\* an 'e' arm that toggles the SQL editor without looking at edit_mode
key_e_ignores_edit_mode(app) ==
    LET st == app.state
    IN IF st.show_sql_editor
       THEN close_sql_editor(app)
       ELSE WithState(app, [st EXCEPT !.show_sql_editor = TRUE,
                                      !.focus = "Content",
                                      !.sql_cursor_pos = Len(st.sql_query)])

\* KeyCode::Char('e') arm
key_e(app) ==
    LET st == app.state
    IN IF st.edit_mode
       THEN WithState(app, [st EXCEPT !.edit_mode = FALSE,
                                      !.editing_row = None,
                                      !.editing_col = None,
                                      !.edit_buffer = <<>>])
       ELSE IF st.show_sql_editor
       THEN close_sql_editor(app)
       ELSE WithState(app, [st EXCEPT !.show_sql_editor = TRUE,
                                      !.focus = "Content",
                                      !.sql_cursor_pos = Len(st.sql_query)])

\* KeyCode::Left arm
key_left(app, event) ==
    LET st == app.state
    IN IF st.full_edit_mode THEN WithState(app, edit_text_input(st, event))
       ELSE IF st.show_sql_editor /\ st.focus = "Content"
       THEN WithState(app, sql_text_input(st, event))
       ELSE IF st.edit_mode /\ ~st.full_edit_mode
       THEN IF IsSome(st.editing_col) /\ Unwrap(st.editing_col) > 0
            THEN LET col == Unwrap(st.editing_col)
                     moved == [st EXCEPT !.editing_col = Some(col - 1)]
                 IN IF IsSome(st.editing_row)
                    THEN WithState(app, seed_short(moved, Unwrap(st.editing_row), col - 1))
                    ELSE WithState(app, moved)
            ELSE app
       ELSE IF st.focus = "Content"
       THEN reload_current_table(WithState(app, prev_page(st)))
       ELSE app

\* KeyCode::Right arm
key_right(app, event) ==
    LET st == app.state
    IN IF st.full_edit_mode THEN WithState(app, edit_text_input(st, event))
       ELSE IF st.show_sql_editor /\ st.focus = "Content"
       THEN WithState(app, sql_text_input(st, event))
       ELSE IF st.edit_mode /\ ~st.full_edit_mode
       THEN IF IsSome(st.editing_col) /\ IsSome(st.table_rows)
               /\ Unwrap(st.editing_col) + 1 < Len(Unwrap(st.table_rows).columns)
            THEN LET col == Unwrap(st.editing_col)
                     moved == [st EXCEPT !.editing_col = Some(col + 1)]
                 IN IF IsSome(st.editing_row)
                    THEN WithState(app, seed_short(moved, Unwrap(st.editing_row), col + 1))
                    ELSE WithState(app, moved)
            ELSE app
       ELSE IF st.focus = "Content"
       THEN reload_current_table(WithState(app, next_page(st)))
       ELSE app

\* an Escape that leaves cell editing altogether from either level
key_esc_cancels_all(app) ==
    LET st == app.state
    IN IF st.full_edit_mode \/ st.edit_mode
       THEN WithState(app, [st EXCEPT !.full_edit_mode = FALSE,
                                      !.edit_mode = FALSE,
                                      !.editing_row = None,
                                      !.editing_col = None,
                                      !.edit_buffer = <<>>,
                                      !.edit_cursor_pos = 0,
                                      !.query_error = None])
       ELSE IF st.show_help THEN WithState(app, [st EXCEPT !.show_help = FALSE])
       ELSE IF st.show_sql_editor THEN close_sql_editor(app)
       ELSE WithState(app, [st EXCEPT !.table_filter = <<>>])

\* KeyCode::Esc arm
key_esc(app) ==
    LET st == app.state
    IN IF st.full_edit_mode THEN WithState(app, [st EXCEPT !.full_edit_mode = FALSE])
       ELSE IF st.edit_mode
       THEN WithState(app, [st EXCEPT !.edit_mode = FALSE,
                                      !.editing_row = None,
                                      !.editing_col = None,
                                      !.edit_buffer = <<>>,
                                      !.edit_cursor_pos = 0,
                                      !.query_error = None])
       ELSE IF st.show_help THEN WithState(app, [st EXCEPT !.show_help = FALSE])
       ELSE IF st.show_sql_editor THEN close_sql_editor(app)
       ELSE WithState(app, [st EXCEPT !.table_filter = <<>>])

\* the inline-edit block of the default arm
inline_edit_input(st, event) ==
    LET pos == Min(st.edit_cursor_pos, Len(st.edit_buffer))
    IN CASE event.code = "Char" ->
              LET cleared == [st EXCEPT !.query_error = None]
              IN IF "CONTROL" \in event.mods
                 THEN IF event.ch = "e"
                      THEN [cleared EXCEPT !.full_edit_mode = TRUE,
                                           !.focus = "Content",
                                           !.edit_cursor_pos = Len(st.edit_buffer)]
                      ELSE cleared
                 ELSE [cleared EXCEPT !.edit_buffer = Insert(@, pos, event.ch),
                                      !.edit_cursor_pos = pos + 1]
         [] event.code = "Backspace" ->
              IF pos > 0 THEN [st EXCEPT !.edit_buffer = Remove(@, pos - 1),
                                         !.edit_cursor_pos = pos - 1]
              ELSE st
         [] event.code = "Delete" ->
              IF pos < Len(st.edit_buffer) THEN [st EXCEPT !.edit_buffer = Remove(@, pos)]
              ELSE st
         [] event.code = "Left" ->
              IF pos > 0 THEN [st EXCEPT !.edit_cursor_pos = pos - 1] ELSE st
         [] event.code = "Right" ->
              IF pos < Len(st.edit_buffer) THEN [st EXCEPT !.edit_cursor_pos = pos + 1] ELSE st
         [] event.code = "Home" -> [st EXCEPT !.edit_cursor_pos = 0]
         [] event.code = "End" -> [st EXCEPT !.edit_cursor_pos = Len(st.edit_buffer)]
         [] OTHER -> st

\* the table-filter block of the default arm
filter_input(st, event) ==
    IF event.code = "Char" /\ event.ch = "/" THEN [st EXCEPT !.table_filter = <<>>]
    ELSE IF event.code = "Char" THEN [st EXCEPT !.table_filter = Append(@, event.ch)]
    ELSE IF event.code = "Backspace" /\ st.table_filter # <<>>
    THEN [st EXCEPT !.table_filter = Slice(@, 0, Len(@) - 1)]
    ELSE st

\* a default arm that tries the table filter before the editors
key_default_filter_first(app, event) ==
    LET st == app.state
    IN IF st.focus = "Tables" THEN WithState(app, filter_input(st, event))
       ELSE IF st.full_edit_mode
       THEN WithState(app, edit_text_input(
                IF event.code = "Char" THEN [st EXCEPT !.query_error = None] ELSE st, event))
       ELSE IF st.edit_mode THEN WithState(app, inline_edit_input(st, event))
       ELSE IF st.show_sql_editor /\ st.focus = "Content"
       THEN WithState(app, sql_text_input(st, event))
       ELSE app

\* the default arm `_ =>` of handle_key_event
key_default(app, event) ==
    LET st == app.state
    IN IF st.full_edit_mode
       THEN WithState(app, edit_text_input(
                IF event.code = "Char" THEN [st EXCEPT !.query_error = None] ELSE st, event))
       ELSE IF st.edit_mode THEN WithState(app, inline_edit_input(st, event))
       ELSE IF st.show_sql_editor /\ st.focus = "Content"
       THEN WithState(app, sql_text_input(st, event))
       ELSE IF st.focus = "Tables" THEN WithState(app, filter_input(st, event))
       ELSE app

\* App::handle_key_event
handle_key_event(app, event) ==
    LET st == app.state
        sql_editor_active == st.show_sql_editor /\ st.focus = "Content"
        full_editor_active == st.full_edit_mode
        free == event.mods = {} /\ ~sql_editor_active /\ ~full_editor_active
        char(c) == event.code = "Char" /\ event.ch = c
    IN CASE char("q") /\ free -> [app EXCEPT !.should_quit = TRUE]
         [] event.code = "Tab" ->
              IF ~full_editor_active
              THEN IF "SHIFT" \in event.mods THEN WithState(app, prev_pane(st))
                   ELSE WithState(app, next_pane(st))
              ELSE app
         [] event.code = "Up" -> key_up(app)
         [] event.code = "Down" -> key_down(app)
         [] event.code = "Enter" -> key_enter(app, event)
         [] char("d") /\ free -> key_d(app)
         [] char("s") /\ free -> key_s(app)
         [] char("/") /\ free ->
              IF st.focus = "Tables" THEN WithState(app, [st EXCEPT !.table_filter = <<>>])
              ELSE app
         [] char("c") /\ "CONTROL" \in event.mods /\ sql_editor_active -> key_ctrl_c(app)
         [] char("e") /\ free -> key_e(app)
         [] char("?") /\ event.mods = {} ->
              WithState(app, [st EXCEPT !.show_help = ~st.show_help])
         [] event.code = "Left" -> key_left(app, event)
         [] event.code = "Right" -> key_right(app, event)
         [] event.code = "Esc" -> key_esc(app)
         [] OTHER -> key_default(app, event)

\* db::get_columns / db::get_indexes / db::get_foreign_keys on the database
get_columns(t) == DbColumns(t)
get_indexes(t) == <<>>
get_foreign_keys(t) ==
    IF t = TableA
    THEN <<[id |-> 0, from_table |-> TableA, from_column |-> "k",
            to_table |-> TableAb, to_column |-> "id"]>>
    ELSE <<>>
\* db::get_table_info
get_table_info(d, t) == [name |-> t, row_count |-> Some(Len(d[t].rows))]

\* key events the terminal delivers
Plain(c) == Key("Char", c, {})
Ctrl(c) == Key("Char", c, {"CONTROL"})
Code(code) == Key(code, "", {})
Shift(code) == Key(code, "", {"SHIFT"})
\* the key events of Spec: pane switch forward and backward, select / execute
\* / edit / save, close or cancel, view toggle, diagram, a text character,
\* next page
Keys == {Code("Tab"), Shift("Tab"), Code("Enter"), Code("Esc"), Plain("s"), Plain("d"),
         Plain("a"), Code("Right")}

\* ------------------------------------------------------------------ state
VARIABLES
    state,          \* App.state: the AppState
    should_quit,    \* App.should_quit
    uipc,           \* position of the UI thread in run_tui
    cmdQ,           \* command channel (tx -> rx), entries tagged with a send number
    respQ,          \* result channel (response_tx -> response_rx)
    sender_alive,   \* Worker.sender not yet dropped
    receiver_alive, \* Worker.receiver not yet dropped
    wpc,            \* position of the worker thread: "recv", "exec" or "done"
    wcur,           \* the command the worker is executing
    nsent,          \* number of commands the UI has enqueued (Shutdown excluded)
    budget,         \* commands enqueued plus reloads owed by pending UpdateCells
    nconsumed,      \* number of commands rx.recv() has returned to the worker
    attempts,       \* send numbers of the commands response_tx.send was called for
    delivered,      \* send numbers of the commands whose response entered the channel
    nfail,          \* number of database calls that have failed
    ndrained,       \* number of responses try_recv has returned to the UI
    lastResp,       \* the response applied last in the current run of the drain loop
    db,             \* the contents of the database behind the worker's Connection
    calls,          \* the schema introspection calls (get_columns, get_indexes,
                    \* get_foreign_keys) of the match arm executed last, with their results
    arrows,         \* the connectors drawn by the last terminal.draw of the diagram
    frame           \* the terminal buffer and rectangles while draw_relationship_arrows
                    \* runs, call by call (followed by the routing specification only)

vars == <<state, should_quit, uipc, cmdQ, respQ, sender_alive, receiver_alive,
          wpc, wcur, nsent, budget, nconsumed, attempts, delivered, nfail, ndrained,
          lastResp, db, calls, arrows, frame>>

uiVars == <<state, should_quit, uipc, nsent, budget, ndrained, lastResp, arrows, frame>>
workerVars == <<wpc, wcur, nconsumed, attempts, delivered, nfail, db, calls>>

\* no routing step is being followed
NoFrame == <<>>

NoCmd == [id |-> 0, msg |-> [type |-> "None"]]
NoResp == [id |-> 0, cmd |-> "None", resp |-> [type |-> "None"]]

\* the entries Worker::send appends for the messages a handler passed to it
Tagged(messages, from) ==
    [i \in 1..Len(messages) |-> [id |-> from + i, msg |-> messages[i]]]

\* an UpdateCell reserves room for the reload its CellUpdated triggers
Cost(messages) ==
    Len(messages) + 2 * Cardinality({i \in 1..Len(messages) : messages[i].type = "UpdateCell"})

AppOf(st, quit) ==
    [state |-> st, sent |-> <<>>, should_quit |-> quit, worker_alive |-> wpc # "done"]

\* run_tui up to the main loop on the database d: Worker::new, App::new,
\* app.load_tables()
InitOn(d) ==
    LET app == load_tables([state |-> AppStateNew(PageSize), sent |-> <<>>,
                            should_quit |-> FALSE, worker_alive |-> TRUE])
    IN /\ state = app.state
       /\ should_quit = FALSE
       /\ uipc = "drain"
       /\ cmdQ = Tagged(app.sent, 0)
       /\ respQ = <<>>
       /\ sender_alive = TRUE
       /\ receiver_alive = TRUE
       /\ wpc = "recv"
       /\ wcur = NoCmd
       /\ nsent = Len(app.sent)
       /\ budget = Cost(app.sent)
       /\ nconsumed = 0
       /\ attempts = <<>>
       /\ delivered = <<>>
       /\ nfail = 0
       /\ ndrained = 0
       /\ lastResp = NoResp
       /\ db = d
       /\ calls = <<>>
       /\ arrows = <<>>
       /\ frame = NoFrame

Init == InitOn(DbInitial)

\* ---------------------------------------------------------- worker thread
\* a receive that takes the newest queued command instead of the oldest
WorkerRecvNewest ==
    /\ wpc = "recv"
    /\ cmdQ # <<>>
    /\ cmdQ' = SubSeq(cmdQ, 1, Len(cmdQ) - 1)
    /\ IF cmdQ[Len(cmdQ)].msg.type = "Shutdown"
       THEN /\ wpc' = "done"
            /\ UNCHANGED <<wcur, nconsumed>>
       ELSE /\ wpc' = "exec"
            /\ wcur' = cmdQ[Len(cmdQ)]
            /\ nconsumed' = nconsumed + 1
    /\ UNCHANGED <<respQ, sender_alive, receiver_alive, attempts, delivered, nfail, db, calls>>
    /\ UNCHANGED uiVars

\* rx.recv() returning Ok(message): a command, or Shutdown which breaks the loop
WorkerRecv ==
    /\ wpc = "recv"
    /\ cmdQ # <<>>
    /\ cmdQ' = Tail(cmdQ)
    /\ IF Head(cmdQ).msg.type = "Shutdown"
       THEN /\ wpc' = "done"
            /\ UNCHANGED <<wcur, nconsumed>>
       ELSE /\ wpc' = "exec"
            /\ wcur' = Head(cmdQ)
            /\ nconsumed' = nconsumed + 1
    /\ UNCHANGED <<respQ, sender_alive, receiver_alive, attempts, delivered, nfail, db, calls>>
    /\ UNCHANGED uiVars

\* a worker that reports the closed channel with an Error response
WorkerDisconnectedReports ==
    /\ wpc = "recv"
    /\ cmdQ = <<>>
    /\ ~sender_alive
    /\ wpc' = "done"
    /\ attempts' = Append(attempts, 0)
    /\ delivered' = IF receiver_alive THEN Append(delivered, 0) ELSE delivered
    /\ respQ' = IF receiver_alive
                THEN Append(respQ, [id |-> 0, cmd |-> "None", resp |-> Error("channel closed")])
                ELSE respQ
    /\ UNCHANGED <<cmdQ, sender_alive, receiver_alive, wcur, nconsumed, nfail, db, calls>>
    /\ UNCHANGED uiVars

\* rx.recv() returning Err: channel closed, the loop breaks
WorkerDisconnected ==
    /\ wpc = "recv"
    /\ cmdQ = <<>>
    /\ ~sender_alive
    /\ wpc' = "done"
    /\ UNCHANGED <<cmdQ, respQ, sender_alive, receiver_alive, wcur, nconsumed,
                   attempts, delivered, nfail, db, calls>>
    /\ UNCHANGED uiVars

\* the outcomes of the match arm of a command: the response it sends and the
\* number of database calls that failed on the way, one outcome per
\* combination of results of the database calls it makes
Call(fn, arg, ok) == [fn |-> fn, arg |-> arg, ok |-> ok]
Failures(made) == Cardinality({i \in 1..Len(made) : ~made[i].ok})
Outcome(response, failed, made) ==
    [response |-> response, failed |-> failed, calls |-> made]
Either(ok, message) == {Outcome(ok, 0, <<>>), Outcome(Error(message), 1, <<>>)}

\* the LoadSchema arm: the tuple of the three calls is built first, so all
\* three are made whatever their results; the patterns (Err(e), _, _) |
\* (_, Err(e), _) | (_, _, Err(e)) then bind e to the first error
LoadSchemaArm(d, table_name) ==
    {LET made == <<Call("get_columns", table_name, okc),
                    Call("get_indexes", table_name, oki),
                    Call("get_foreign_keys", table_name, okf)>>
     IN Outcome(IF okc /\ oki /\ okf
                THEN SchemaLoaded(get_columns(table_name), get_indexes(table_name),
                                  get_foreign_keys(table_name))
                ELSE IF ~okc THEN Error("Failed to load schema: get_columns")
                ELSE IF ~oki THEN Error("Failed to load schema: get_indexes")
                ELSE Error("Failed to load schema: get_foreign_keys"),
                Failures(made), made)
       : okc \in BOOLEAN, oki \in BOOLEAN, okf \in BOOLEAN}

\* the DiagramTable entries of the listed tables both of whose calls succeeded
DiagramTables(tables, good) ==
    SelectSeq([i \in 1..Len(tables) |->
                 [name |-> tables[i].name,
                  columns |-> get_columns(tables[i].name),
                  foreign_keys |-> get_foreign_keys(tables[i].name)]],
              LAMBDA dt : dt.name \in good)

\* the calls of the loop of the LoadDiagram arm: for each listed table the
\* tuple (get_columns, get_foreign_keys), both made whatever their results
DiagramCalls(tables, okc, okf) ==
    [j \in 1..(2 * Len(tables)) |->
        LET name == tables[(j + 1) \div 2].name
        IN IF j % 2 = 1 THEN Call("get_columns", name, okc[name])
           ELSE Call("get_foreign_keys", name, okf[name])]

\* a LoadDiagram arm that gives up on the first table it cannot load
LoadDiagramArmFailsWhole(d) ==
    LET tables == get_tables(d, FALSE)
        names == {tables[i].name : i \in 1..Len(tables)}
    IN {Outcome(Error("Failed to load diagram"), 1, <<>>)}
       \cup {LET made == DiagramCalls(tables, okc, okf)
             IN Outcome(IF \A t \in names : okc[t] /\ okf[t]
                        THEN DiagramLoaded([tables |-> DiagramTables(tables, names)])
                        ELSE Error("Failed to load diagram"),
                        Failures(made), made)
               : okc \in [names -> BOOLEAN], okf \in [names -> BOOLEAN]}

\* the LoadDiagram arm: get_tables(false), then the loop over its tables
LoadDiagramArm(d) ==
    LET tables == get_tables(d, FALSE)
        names == {tables[i].name : i \in 1..Len(tables)}
    IN {Outcome(Error("Failed to load diagram"), 1, <<>>)}
       \cup {LET made == DiagramCalls(tables, okc, okf)
             IN Outcome(DiagramLoaded([tables |->
                            DiagramTables(tables, {t \in names : okc[t] /\ okf[t]})]),
                        Failures(made), made)
               : okc \in [names -> BOOLEAN], okf \in [names -> BOOLEAN]}

Outcomes(d, msg) ==
    CASE msg.type = "LoadTables" ->
           Either(TablesLoaded(get_tables(d, msg.include_internal)), "Failed to load tables")
      [] msg.type = "LoadTableRows" ->
           Either(TableRowsLoaded(get_table_rows(d, msg.table_name, msg.limit, msg.offset)),
                  "Failed to load rows")
      [] msg.type = "ExecuteQuery" ->
           Either(QueryExecuted(execute_query_rows(d, msg.query, msg.max_rows)), "SQL error")
      [] msg.type = "GetTableInfo" ->
           Either(TableInfoLoaded(get_table_info(d, msg.table_name)),
                  "Failed to load table info")
      [] msg.type = "LoadSchema" -> LoadSchemaArm(d, msg.table_name)
      [] msg.type = "LoadDiagram" -> LoadDiagramArm(d)
      [] msg.type = "UpdateCell" ->
           IF update_cell(d, msg.table_name, msg.row_index, msg.column_name,
                          msg.new_value).ok
           THEN Either(CellUpdated, "Failed to update cell")
           ELSE {Outcome(Error("Failed to update cell"), 0, <<>>)}

\* the database after the match arm that answered with the given response
Written(d, msg, response) ==
    IF msg.type = "UpdateCell" /\ response.type = "CellUpdated"
    THEN update_cell(d, msg.table_name, msg.row_index, msg.column_name, msg.new_value).db
    ELSE d

\* match arms that send nothing when a database call failed
WorkerExecSilentFailure ==
    /\ wpc = "exec"
    /\ \E o \in Outcomes(db, wcur.msg) :
          /\ nfail + o.failed <= MaxFail
          /\ nfail' = nfail + o.failed
          /\ db' = Written(db, wcur.msg, o.response)
          /\ calls' = o.calls
          /\ LET sends == o.response.type # "Error"
             IN /\ respQ' = IF receiver_alive /\ sends
                            THEN Append(respQ, [id |-> wcur.id, cmd |-> wcur.msg.type,
                                                resp |-> o.response])
                            ELSE respQ
                /\ attempts' = IF sends THEN Append(attempts, wcur.id) ELSE attempts
                /\ delivered' = IF receiver_alive /\ sends
                                THEN Append(delivered, wcur.id) ELSE delivered
    /\ wpc' = "recv"
    /\ wcur' = NoCmd
    /\ UNCHANGED <<cmdQ, sender_alive, receiver_alive, nconsumed>>
    /\ UNCHANGED uiVars

\* the match arm of the received command: the database calls, then
\* `let _ = response_tx.send(..)`, whose Err (receiver dropped) is ignored
WorkerExec ==
    /\ wpc = "exec"
    /\ \E o \in Outcomes(db, wcur.msg) :
          /\ nfail + o.failed <= MaxFail
          /\ nfail' = nfail + o.failed
          /\ db' = Written(db, wcur.msg, o.response)
          /\ calls' = o.calls
          /\ respQ' = IF receiver_alive
                      THEN Append(respQ, [id |-> wcur.id, cmd |-> wcur.msg.type,
                                          resp |-> o.response])
                      ELSE respQ
    /\ attempts' = Append(attempts, wcur.id)
    /\ delivered' = IF receiver_alive THEN Append(delivered, wcur.id) ELSE delivered
    /\ wpc' = "recv"
    /\ wcur' = NoCmd
    /\ UNCHANGED <<cmdQ, sender_alive, receiver_alive, nconsumed>>
    /\ UNCHANGED uiVars

\* --------------------------------------------- UI thread (main.rs run_tui)
\* the bounds on what a handler may leave behind
InFlight == Len(cmdQ) + (IF wpc = "exec" THEN 1 ELSE 0) + Len(respQ)
WithinBounds(app) ==
    /\ budget + Cost(app.sent) <= MaxCmds
    /\ app.sent # <<>> => InFlight + Len(app.sent) <= MaxInFlight
    /\ Len(app.state.edit_buffer) <= MaxBuf
    /\ Len(app.state.sql_query) <= MaxBuf
    /\ Len(app.state.table_filter) <= MaxBuf
    /\ app.state.current_page <= MaxPage

\* the assignments a handler's result makes to the UI side of the state
Commit(app) ==
    /\ state' = app.state
    /\ should_quit' = app.should_quit
    /\ cmdQ' = cmdQ \o Tagged(app.sent, nsent)
    /\ nsent' = nsent + Len(app.sent)

\* a drain that takes the newest queued response instead of the oldest
ProcessNewestResponse ==
    /\ uipc = "drain"
    /\ receiver_alive
    /\ respQ # <<>>
    /\ LET newest == respQ[Len(respQ)]
           app == process_worker_response(AppOf(state, should_quit), newest.resp)
       IN /\ Commit(app)
          /\ budget' = IF newest.resp.type = "CellUpdated"
                       THEN budget - 2 + Len(app.sent)
                       ELSE IF newest.cmd = "UpdateCell" THEN budget - 2
                       ELSE budget
          /\ lastResp' = newest
          /\ UNCHANGED <<arrows, frame>>
    /\ respQ' = SubSeq(respQ, 1, Len(respQ) - 1)
    /\ ndrained' = ndrained + 1
    /\ UNCHANGED <<uipc, sender_alive, receiver_alive>>
    /\ UNCHANGED workerVars

\* process_worker_responses: try_recv returned Some(response); it is applied
ProcessWorkerResponse ==
    /\ uipc = "drain"
    /\ receiver_alive
    /\ respQ # <<>>
    /\ LET app == process_worker_response(AppOf(state, should_quit), Head(respQ).resp)
       IN /\ Commit(app)
          /\ budget' = IF Head(respQ).resp.type = "CellUpdated"
                       THEN budget - 2 + Len(app.sent)
                       ELSE IF Head(respQ).cmd = "UpdateCell" THEN budget - 2
                       ELSE budget
    /\ respQ' = Tail(respQ)
    /\ ndrained' = ndrained + 1
    /\ lastResp' = Head(respQ)
    /\ UNCHANGED <<arrows, frame>>
    /\ UNCHANGED <<uipc, sender_alive, receiver_alive>>
    /\ UNCHANGED workerVars

\* process_worker_responses: no response is queued and try_recv returned
\* Ok(None), or Err("Worker thread disconnected") once the worker thread has
\* ended and dropped response_tx; neither matches `while let
\* Ok(Some(response))`, so the loop ends, the function returns Ok(()) and the
\* main loop goes on to event::poll
DrainDone ==
    /\ uipc = "drain"
    /\ respQ = <<>>
    /\ uipc' = "poll"
    /\ lastResp' = NoResp
    /\ UNCHANGED <<arrows, frame>>
    /\ UNCHANGED <<state, should_quit, nsent, budget, ndrained>>
    /\ UNCHANGED <<cmdQ, respQ, sender_alive, receiver_alive>>
    /\ UNCHANGED workerVars

\* event::poll returned a key event: handle_key_event, then the next
\* iteration draws and breaks out of the loop if should_quit is set
KeyEventOf(keys) ==
    /\ uipc = "poll"
    /\ \E event \in keys :
          LET app == handle_key_event(AppOf(state, should_quit), event)
          IN /\ WithinBounds(app)
             /\ Commit(app)
             /\ budget' = budget + Cost(app.sent)
             /\ uipc' = IF app.should_quit THEN "quit" ELSE "drain"
    /\ UNCHANGED <<ndrained, lastResp, arrows, frame>>
    /\ UNCHANGED <<respQ, sender_alive, receiver_alive>>
    /\ UNCHANGED workerVars

KeyEvent == KeyEventOf(Keys)

\* event::poll timed out, or the event was not a key event
NoKeyEvent ==
    /\ uipc = "poll"
    /\ uipc' = "drain"
    /\ UNCHANGED <<state, should_quit, nsent, budget, ndrained, lastResp, arrows, frame>>
    /\ UNCHANGED <<cmdQ, respQ, sender_alive, receiver_alive>>
    /\ UNCHANGED workerVars

\* Worker::shutdown, first statement: self.sender.send(WorkerMessage::Shutdown)?
ShutdownSend ==
    /\ uipc = "quit"
    /\ IF wpc # "done"
       THEN /\ cmdQ' = Append(cmdQ, [id |-> 0, msg |-> Shutdown])
            /\ uipc' = "join"
            /\ UNCHANGED <<sender_alive, receiver_alive, respQ>>
       ELSE /\ uipc' = "failed"
            /\ sender_alive' = FALSE
            /\ receiver_alive' = FALSE
            /\ respQ' = <<>>
            /\ UNCHANGED cmdQ
    /\ UNCHANGED <<state, should_quit, nsent, budget, ndrained, lastResp, arrows, frame>>
    /\ UNCHANGED workerVars

\* a shutdown that returns without joining the worker thread
ShutdownNoJoin ==
    /\ uipc = "join"
    /\ uipc' = "exited"
    /\ sender_alive' = FALSE
    /\ receiver_alive' = FALSE
    /\ respQ' = <<>>
    /\ UNCHANGED <<state, should_quit, nsent, budget, ndrained, lastResp, arrows, frame>>
    /\ UNCHANGED cmdQ
    /\ UNCHANGED workerVars

\* Worker::shutdown, second statement: self.handle.join() returns once the
\* worker thread has terminated; the rest of the Worker is dropped on return
ShutdownJoin ==
    /\ uipc = "join"
    /\ wpc = "done"
    /\ uipc' = "exited"
    /\ sender_alive' = FALSE
    /\ receiver_alive' = FALSE
    /\ respQ' = <<>>
    /\ UNCHANGED <<state, should_quit, nsent, budget, ndrained, lastResp, arrows, frame>>
    /\ UNCHANGED cmdQ
    /\ UNCHANGED workerVars

\* a terminal call of run_tui fails and `?` returns: the App is dropped
\* without shutdown; Worker's fields drop in declaration order, sender first
DropSender ==
    /\ uipc \in {"drain", "poll", "quit"}
    /\ uipc' = "dropping"
    /\ sender_alive' = FALSE
    /\ UNCHANGED <<state, should_quit, nsent, budget, ndrained, lastResp, arrows, frame>>
    /\ UNCHANGED <<cmdQ, respQ, receiver_alive>>
    /\ UNCHANGED workerVars

\* ... then the receiver, with whatever responses were still queued
DropReceiver ==
    /\ uipc = "dropping"
    /\ uipc' = "aborted"
    /\ receiver_alive' = FALSE
    /\ respQ' = <<>>
    /\ UNCHANGED <<state, should_quit, nsent, budget, ndrained, lastResp, arrows, frame>>
    /\ UNCHANGED <<cmdQ, sender_alive>>
    /\ UNCHANGED workerVars

Next ==
    \/ WorkerRecv
    \/ WorkerExec
    \/ ProcessWorkerResponse
    \/ DrainDone
    \/ KeyEvent
    \/ NoKeyEvent

\* the main loop of run_tui and the worker thread, up to the quit request
Spec == Init /\ [][Next]_vars

\* the key events of SpecList: pane switch, select / edit / save, close or
\* cancel, selection up and down, previous page, a filter character and its
\* removal
ListKeys == {Code("Tab"), Code("Enter"), Code("Esc"), Code("Up"), Code("Down"),
             Code("Left"), Plain("b"), Code("Backspace")}
ListKeyEvent == KeyEventOf(ListKeys)

ListNext ==
    \/ WorkerRecv
    \/ WorkerExec
    \/ ProcessWorkerResponse
    \/ DrainDone
    \/ ListKeyEvent
    \/ NoKeyEvent

\* the same program driven through the table list
SpecList == Init /\ [][ListNext]_vars

\* the key events of SpecEditor: pane switch, execute / select / edit / save,
\* newline, close or cancel, SQL editor toggle, a text character and its
\* removal, filter reset
EditorKeys == {Code("Tab"), Code("Enter"), Shift("Enter"), Code("Esc"), Plain("e"),
               Plain("a"), Code("Backspace"), Plain("/")}
EditorKeyEvent == KeyEventOf(EditorKeys)

EditorNext ==
    \/ WorkerRecv
    \/ WorkerExec
    \/ ProcessWorkerResponse
    \/ DrainDone
    \/ EditorKeyEvent
    \/ NoKeyEvent

\* the same program driven through the SQL editor and the text inputs
SpecEditor == Init /\ [][EditorNext]_vars

\* ------------------------------------------ edit mode over any cell value
\* the longest cell text of SpecPromote
MaxText == 52

RECURSIVE Repeat(_, _)
Repeat(c, n) == IF n = 0 THEN <<>> ELSE <<c>> \o Repeat(c, n - 1)

\* the values cell (0,0) of the loaded page may hold: NULL, an integer, ASCII
\* text of every length, text ending in or made of a newline, non-ASCII text
CellValues ==
    {VNull, VInt(7)}
    \cup {VText(Repeat("x", n)) : n \in 0..MaxText}
    \cup {VText(Repeat("x", n) \o <<NL>>) : n \in {0, 1, FullEditLen - 1, FullEditLen}}
    \cup {VText(Repeat(EAcute, n)) : n \in 1..MaxText}

\* the application once the table list and a one-cell page of table a have
\* been loaded, a filter has or has not been typed and the SQL editor has
\* been closed
PromoteInit ==
    /\ \E v \in CellValues, flt \in {<<>>, <<"a">>} :
          state = [AppStateNew(PageSize) EXCEPT
                      !.tables = get_tables(DbInitial, FALSE),
                      !.table_filter = flt,
                      !.show_sql_editor = FALSE,
                      !.current_table = Some(TableA),
                      !.table_info = Some(get_table_info(DbInitial, TableA)),
                      !.table_rows = Some([columns |-> DbColumns(TableA),
                                           rows |-> << <<v>> >>,
                                           truncated |-> FALSE,
                                           of_table |-> TableA, of_offset |-> 0])]
    /\ should_quit = FALSE
    /\ uipc = "poll"
    /\ cmdQ = <<>>
    /\ respQ = <<>>
    /\ sender_alive = TRUE
    /\ receiver_alive = TRUE
    /\ wpc = "recv"
    /\ wcur = NoCmd
    /\ nsent = 3
    /\ budget = 3
    /\ nconsumed = 3
    /\ attempts = <<1, 2, 3>>
    /\ delivered = <<1, 2, 3>>
    /\ nfail = 0
    /\ ndrained = 3
    /\ lastResp = NoResp
    /\ db = [DbInitial EXCEPT ![TableA].rows = Unwrap(state.table_rows).rows]
    /\ calls = <<>>
    /\ arrows = <<>>
    /\ frame = NoFrame

\* the key events of SpecPromote: enter edit mode, leave it one level at a
\* time, toggle the help overlay
PromoteKeys == {Code("Enter"), Code("Esc"), Plain("?")}

\* handle_key_event on a key that dispatches no command
PromoteKeyEvent ==
    /\ uipc = "poll"
    /\ \E event \in PromoteKeys :
          LET app == handle_key_event(AppOf(state, should_quit), event)
          IN /\ app.sent = <<>>
             /\ Commit(app)
             /\ uipc' = IF app.should_quit THEN "quit" ELSE "drain"
    /\ UNCHANGED <<budget, ndrained, lastResp, arrows, frame>>
    /\ UNCHANGED <<respQ, sender_alive, receiver_alive>>
    /\ UNCHANGED workerVars

PromoteNext ==
    \/ DrainDone
    \/ NoKeyEvent
    \/ PromoteKeyEvent

\* Enter and Escape on a loaded page whose first cell holds any value
SpecPromote == PromoteInit /\ [][PromoteNext]_vars

\* --------------------------------------------- paging ahead of the worker
\* the commands the key events of SpecPage may dispatch
MaxPageCmds == 5

\* the application once the table list and page 0 of table Ab have been
\* loaded and the SQL editor has been closed
PageInit ==
    /\ state = [AppStateNew(PageSize) EXCEPT
                   !.tables = get_tables(DbInitial, FALSE),
                   !.show_sql_editor = FALSE,
                   !.current_table = Some(TableAb),
                   !.table_info = Some(get_table_info(DbInitial, TableAb)),
                   !.table_rows = Some(get_table_rows(DbInitial, TableAb, PageSize, 0))]
    /\ should_quit = FALSE
    /\ uipc = "poll"
    /\ cmdQ = <<>>
    /\ respQ = <<>>
    /\ sender_alive = TRUE
    /\ receiver_alive = TRUE
    /\ wpc = "recv"
    /\ wcur = NoCmd
    /\ nsent = 3
    /\ budget = 3
    /\ nconsumed = 3
    /\ attempts = <<1, 2, 3>>
    /\ delivered = <<1, 2, 3>>
    /\ nfail = 0
    /\ ndrained = 3
    /\ lastResp = NoResp
    /\ db = DbInitial
    /\ calls = <<>>
    /\ arrows = <<>>
    /\ frame = NoFrame

\* next page, and Enter to edit and to save
PageKeys == {Code("Right"), Code("Enter")}

\* handle_key_event on a key of PageKeys, however many commands are in flight
PageKeyEvent ==
    /\ uipc = "poll"
    /\ \E event \in PageKeys :
          LET app == handle_key_event(AppOf(state, should_quit), event)
          IN /\ nsent + Len(app.sent) <= 3 + MaxPageCmds
             /\ app.state.current_page <= MaxPage + 1
             /\ Commit(app)
             /\ budget' = budget + Cost(app.sent)
             /\ uipc' = IF app.should_quit THEN "quit" ELSE "drain"
    /\ UNCHANGED <<ndrained, lastResp, arrows, frame>>
    /\ UNCHANGED <<respQ, sender_alive, receiver_alive>>
    /\ UNCHANGED workerVars

PageNext ==
    \/ WorkerRecv
    \/ WorkerExec
    \/ ProcessWorkerResponse
    \/ DrainDone
    \/ NoKeyEvent
    \/ PageKeyEvent

\* paging and editing a loaded table while earlier loads are still in flight
SpecPage == PageInit /\ [][PageNext]_vars

\* ------------------------------------------------ keys while a cell is edited
\* the commands the key events of SpecCell may dispatch
MaxCellCmds == 1

\* the key events of SpecCell: edit / save, leave, promote to the full
\* editor, the shortcut characters (text in the full editor) and the arrows
CellKeys ==
    {Code("Enter"), Code("Esc"), Ctrl("e"),
     Plain("e"), Plain("q"), Plain("d"), Plain("s"), Plain("?"),
     Code("Up"), Code("Down"), Code("Left"), Code("Right")}

\* handle_key_event on a key of CellKeys
CellKeyEvent ==
    /\ uipc = "poll"
    /\ \E event \in CellKeys :
          LET app == handle_key_event(AppOf(state, should_quit), event)
          IN /\ nsent + Len(app.sent) <= 3 + MaxCellCmds
             /\ app.state.current_page <= MaxPage
             /\ Len(app.state.edit_buffer) <= MaxBuf + 1
             /\ app.state.sql_query = <<>>
             /\ Commit(app)
             /\ budget' = budget + Cost(app.sent)
             /\ uipc' = IF app.should_quit THEN "quit" ELSE "drain"
    /\ UNCHANGED <<ndrained, lastResp, arrows, frame>>
    /\ UNCHANGED <<respQ, sender_alive, receiver_alive>>
    /\ UNCHANGED workerVars

CellNext ==
    \/ WorkerRecv
    \/ WorkerExec
    \/ ProcessWorkerResponse
    \/ DrainDone
    \/ NoKeyEvent
    \/ CellKeyEvent

\* every kind of key on a loaded page, in and out of cell edit mode
SpecCell == PageInit /\ [][CellNext]_vars

\* ------------------------------------ the main loop over a worker that ends
\* a database call panics: the closure of thread::spawn unwinds, dropping rx
\* with the commands still queued and response_tx; responses already sent
\* stay in the channel (Worker::shutdown reports this as "Worker thread
\* panicked")
WorkerPanics ==
    /\ wpc = "exec"
    /\ wpc' = "done"
    /\ wcur' = NoCmd
    /\ cmdQ' = <<>>
    /\ UNCHANGED <<respQ, sender_alive, receiver_alive, nconsumed, attempts, delivered,
                   nfail, db, calls>>
    /\ UNCHANGED uiVars

DrainKeys == {Code("Tab"), Code("Enter"), Plain("s")}
DrainKeyEvent == KeyEventOf(DrainKeys)

DrainNext ==
    \/ WorkerRecv
    \/ WorkerExec
    \/ WorkerPanics
    \/ ProcessWorkerResponse
    \/ DrainDone
    \/ DrainKeyEvent
    \/ NoKeyEvent

\* the main loop of run_tui with a worker thread that may end under it
SpecDrain == Init /\ [][DrainNext]_vars

\* ------------------------------------------- the diagram (ui/diagram.rs)
\* `<` on String: the bytewise lexicographic order
string_lt(a, b) == TextLess(a, b)

\* a relationship key that keeps the direction of the foreign key
relationship_key_directed(fk) == <<fk.from_table, fk.to_table>>

\* the canonical relationship key: the smaller table name first
relationship_key(fk) ==
    IF string_lt(fk.from_table, fk.to_table)
    THEN <<fk.from_table, fk.to_table>>
    ELSE <<fk.to_table, fk.from_table>>

\* the foreign keys in the order the nested loops `for table in
\* &diagram.tables { for fk in &table.foreign_keys` visit them
RECURSIVE ForeignKeysOf(_)
ForeignKeysOf(tables) ==
    IF tables = <<>> THEN <<>>
    ELSE Head(tables).foreign_keys \o ForeignKeysOf(Tail(tables))

\* the body of the loops over the foreign keys still to visit: the calls of
\* draw_curved_arrow it makes, each with the tables it connects
RECURSIVE draw_arrows(_, _, _)
draw_arrows(fks, rendered_tables, drawn_relationships) ==
    IF fks = <<>> THEN <<>>
    ELSE LET fk == Head(fks)
         IN IF fk.from_table \notin rendered_tables \/ fk.to_table \notin rendered_tables
            THEN draw_arrows(Tail(fks), rendered_tables, drawn_relationships)
            ELSE IF fk.from_table = fk.to_table
            THEN draw_arrows(Tail(fks), rendered_tables, drawn_relationships)
            ELSE IF relationship_key(fk) \in drawn_relationships
            THEN draw_arrows(Tail(fks), rendered_tables, drawn_relationships)
            ELSE <<[from |-> fk.from_table, to |-> fk.to_table]>>
                 \o draw_arrows(Tail(fks), rendered_tables,
                                drawn_relationships \cup {relationship_key(fk)})

draw_relationship_arrows(diagram, table_positions) ==
    draw_arrows(ForeignKeysOf(diagram.tables), DOMAIN table_positions, {})

\* render_diagram: every table of the diagram gets a cell of the grid and an
\* entry of table_positions (here its cell number), then the arrows are drawn
render_diagram(st) ==
    IF st.diagram_loading \/ st.diagram_data = None THEN <<>>
    ELSE LET diagram == Unwrap(st.diagram_data)
             table_positions ==
                 [name \in {diagram.tables[i].name : i \in 1..Len(diagram.tables)} |->
                     CHOOSE i \in 1..Len(diagram.tables) : diagram.tables[i].name = name]
         IN IF diagram.tables = <<>> THEN <<>>
            ELSE draw_relationship_arrows(diagram, table_positions)

\* the largest number of foreign keys of a table
MaxFks == 2

\* the diagrams LoadDiagram can answer: the tables in listing order, the last
\* one present or dropped, each with up to MaxFks foreign keys to any table,
\* itself and the dropped one included
DiagramChoices ==
    LET names == <<TableAb, TableA, TableC>>
        targets == UNION {[1..n -> {TableAb, TableA, TableC}] : n \in 0..MaxFks}
    IN {[tables |->
           [i \in 1..k |->
              [name |-> names[i],
               columns |-> get_columns(names[i]),
               foreign_keys |->
                  [j \in 1..Len(to[i]) |->
                     [id |-> j - 1, from_table |-> names[i],
                      from_column |-> get_columns(names[i])[1],
                      to_table |-> to[i][j],
                      to_column |-> get_columns(to[i][j])[1]]]]]]
        : k \in {2, 3}, to \in [1..3 -> targets]}

\* the application showing a loaded diagram: the table list has been loaded,
\* 'd' has been pressed and DiagramLoaded has been applied
DiagramInit ==
    /\ \E data \in DiagramChoices :
          state = [AppStateNew(PageSize) EXCEPT
                      !.tables = get_tables(DbInitial, FALSE),
                      !.focus = "Content",
                      !.view_mode = "Diagram",
                      !.diagram_data = Some(data)]
    /\ should_quit = FALSE
    /\ uipc = "draw"
    /\ cmdQ = <<>>
    /\ respQ = <<>>
    /\ sender_alive = TRUE
    /\ receiver_alive = TRUE
    /\ wpc = "recv"
    /\ wcur = NoCmd
    /\ nsent = 2
    /\ budget = 2
    /\ nconsumed = 2
    /\ attempts = <<1, 2>>
    /\ delivered = <<1, 2>>
    /\ nfail = 0
    /\ ndrained = 2
    /\ lastResp = NoResp
    /\ db = DbInitial
    /\ calls = <<>>
    /\ arrows = <<>>
    /\ frame = NoFrame

\* terminal.draw(|f| ui::render(f, &app)) at the top of the main loop
TerminalDraw ==
    /\ uipc = "draw"
    /\ uipc' = "drain"
    /\ arrows' = IF state.view_mode = "Diagram" THEN render_diagram(state) ELSE <<>>
    /\ UNCHANGED frame
    /\ UNCHANGED <<state, should_quit, nsent, budget, ndrained, lastResp>>
    /\ UNCHANGED <<cmdQ, respQ, sender_alive, receiver_alive>>
    /\ UNCHANGED workerVars

\* event::poll timed out: the next iteration of the main loop begins
PollTimeout ==
    /\ uipc = "poll"
    /\ uipc' = "draw"
    /\ UNCHANGED <<state, should_quit, nsent, budget, ndrained, lastResp, arrows, frame>>
    /\ UNCHANGED <<cmdQ, respQ, sender_alive, receiver_alive>>
    /\ UNCHANGED workerVars

DiagramNext ==
    \/ TerminalDraw
    \/ DrainDone
    \/ PollTimeout

\* the main loop redrawing a loaded diagram
SpecDiagram == DiagramInit /\ [][DiagramNext]_vars

\* ------------------------------------- connector routing (ui/diagram.rs)
\* glyphs of the terminal buffer: '─', '│', the box-drawing corners and
\* junctions, the characters the router writes, and a letter of some text
Blank == " "
HLine == "HLine"
VLine == "VLine"
Junctions == {"TopLeft", "TopRight", "BottomLeft", "BottomRight",
              "TeeRight", "TeeLeft", "TeeDown", "TeeUp", "Cross"}
ArrowHeads == {">", "<", "^", "v"}
Diagonals == {"/", "\\"}
Letter == "Letter"

\* a can_draw_on_cell that also accepts text
can_draw_on_any_cell(ch) == TRUE

\* can_draw_on_cell
can_draw_on_cell(ch) ==
    \/ ch = Blank
    \/ ch \in {HLine, VLine}
    \/ ch \in Junctions
    \/ ch \in ArrowHeads
    \/ ch \in Diagonals

Abs(n) == IF n < 0 THEN 0 - n ELSE n
Max(a, b) == IF a >= b THEN a ELSE b
\* `/` on signed integers rounds toward zero (d > 0)
TruncDiv(n, d) == IF n >= 0 THEN n \div d ELSE 0 - ((0 - n) \div d)
\* f64::round of n / d (d > 0): halves away from zero
RoundDiv(n, d) ==
    IF n >= 0
    THEN (n \div d) + (IF 2 * (n % d) >= d THEN 1 ELSE 0)
    ELSE 0 - (((0 - n) \div d) + (IF 2 * ((0 - n) % d) >= d THEN 1 ELSE 0))
\* `as u16` of a float: saturates at 0
AsU16(n) == IF n < 0 THEN 0 ELSE n
\* `dist as usize` for dist = sqrt(n)
isqrt(n) == CHOOSE r \in 0..n : r * r <= n /\ (r + 1) * (r + 1) > n
\* (n as f64).sqrt().ceil() as usize
ceil_sqrt(n) == CHOOSE r \in 0..n : r * r >= n /\ (r = 0 \/ (r - 1) * (r - 1) < n)

\* Rect::new and the cells of a rectangle
Rect(x, y, width, height) == [x |-> x, y |-> y, width |-> width, height |-> height]
InRect(p, r) ==
    /\ p[1] >= r.x /\ p[1] < r.x + r.width
    /\ p[2] >= r.y /\ p[2] < r.y + r.height
\* block.inner(area) for Borders::ALL
Inner(r) ==
    IF r.width < 2 \/ r.height < 2 THEN Rect(r.x, r.y, 0, 0)
    ELSE Rect(r.x + 1, r.y + 1, r.width - 2, r.height - 2)

\* find_edge_point
find_edge_point(cx, cy, w, h, target_cx, target_cy) ==
    LET left == cx - w \div 2
        right == cx + w \div 2
        top == cy - h \div 2
        bottom == cy + h \div 2
        dx == target_cx - cx
        dy == target_cy - cy
    IN IF Abs(dx) > Abs(dy)
       THEN IF dx > 0 THEN <<right, cy>> ELSE <<left, cy>>
       ELSE IF dy > 0 THEN <<cx, bottom>> ELSE <<cx, top>>

\* cubic_bezier at t = i / steps, one coordinate, rounded and cast to u16
cubic_bezier(p0, p1, p2, p3, i, steps) ==
    LET mt == steps - i
    IN AsU16(RoundDiv(mt * mt * mt * p0 + 3 * mt * mt * i * p1
                        + 3 * mt * i * i * p2 + i * i * i * p3,
                      steps * steps * steps))

\* the control points of the curve from (x1, y1) to (x2, y2)
ControlPoints(x1, y1, x2, y2) ==
    LET dx == x2 - x1
        dy == y2 - y1
        control_offset == Max(Min(isqrt((dx * dx + dy * dy) \div 4), 25), 8)
    IN IF Abs(dx) > Abs(dy)
       THEN LET perp_offset == IF Abs(dy) < 5 THEN control_offset
                               ELSE control_offset \div 2
                curve_dir == IF dy > 0 THEN 1 ELSE 0 - 1
            IN <<x1 + TruncDiv(dx, 3), y1 + curve_dir * perp_offset,
                 x1 + TruncDiv(2 * dx, 3), y2 - curve_dir * perp_offset>>
       ELSE LET perp_offset == IF Abs(dx) < 5 THEN control_offset
                               ELSE control_offset \div 2
                curve_dir == IF dx > 0 THEN 1 ELSE 0 - 1
            IN <<x1 + curve_dir * perp_offset, y1 + TruncDiv(dy, 3),
                 x2 - curve_dir * perp_offset, y1 + TruncDiv(2 * dy, 3)>>

\* the samples of the curve for i in 0..=steps, consecutive duplicates dropped
RECURSIVE CurvePoints(_, _, _, _, _, _, _)
CurvePoints(x1, y1, x2, y2, c, i, steps) ==
    IF i > steps THEN <<>>
    ELSE LET point == <<cubic_bezier(x1, c[1], c[3], x2, i, steps),
                        cubic_bezier(y1, c[2], c[4], y2, i, steps)>>
             rest == CurvePoints(x1, y1, x2, y2, c, i + 1, steps)
         IN IF rest # <<>> /\ Head(rest) = point THEN rest ELSE <<point>> \o rest

\* the cells filled in between two samples more than one cell apart
GapPoints(p, n) ==
    LET dx == n[1] - p[1]
        dy == n[2] - p[2]
        gap_steps == Max(Abs(dx), Abs(dy))
    IN IF Abs(dx) > 1 \/ Abs(dy) > 1
       THEN [j \in 1..(gap_steps - 1) |->
               <<AsU16(RoundDiv(p[1] * gap_steps + dx * j, gap_steps)),
                 AsU16(RoundDiv(p[2] * gap_steps + dy * j, gap_steps))>>]
       ELSE <<>>

RECURSIVE FilledPoints(_)
FilledPoints(points) ==
    IF Len(points) <= 1 THEN points
    ELSE <<points[1]>> \o GapPoints(points[1], points[2]) \o FilledPoints(Tail(points))

\* the path draw_curved_arrow walks: the samples with the gaps filled
PathPoints(x1, y1, x2, y2) ==
    LET dx == x2 - x1
        dy == y2 - y1
        steps == Min(Max(isqrt(dx * dx + dy * dy) * 3, 30), 300)
    IN FilledPoints(CurvePoints(x1, y1, x2, y2, ControlPoints(x1, y1, x2, y2), 0, steps))

\* the character for point i (from 1) of the path
char_to_use(points, i) ==
    LET adx == points[i][1] - points[i - 1][1]
        ady == points[i][2] - points[i - 1][2]
    IN IF i = Len(points)
       THEN IF i > 1
            THEN IF Abs(adx) > Abs(ady)
                 THEN IF adx > 0 THEN ">" ELSE "<"
                 ELSE IF ady > 0 THEN "v" ELSE "^"
            ELSE ">"
       ELSE IF i > 1
       THEN IF Abs(adx) > 0 /\ Abs(ady) > 0
            THEN IF (adx > 0 /\ ady > 0) \/ (adx < 0 /\ ady < 0) THEN "\\" ELSE "/"
            ELSE IF Abs(adx) > Abs(ady) THEN HLine
            ELSE IF Abs(ady) > 0 THEN VLine
            ELSE HLine
       ELSE HLine

\* the drawing loop of draw_curved_arrow from point i on
RECURSIVE DrawPoints(_, _, _, _, _)
DrawPoints(buf, area, table_rects, points, i) ==
    IF i > Len(points) THEN buf
    ELSE LET p == points[i]
             inside_table == \E r \in table_rects : InRect(p, r)
         IN DrawPoints(IF InRect(p, area) /\ ~inside_table /\ can_draw_on_cell(buf[p])
                       THEN [buf EXCEPT ![p] = char_to_use(points, i)]
                       ELSE buf,
                       area, table_rects, points, i + 1)

\* draw_curved_arrow
draw_curved_arrow(buf, area, x1, y1, x2, y2, table_rects) ==
    IF ~(InRect(<<x1, y1>>, area) /\ InRect(<<x2, y2>>, area)) THEN buf
    ELSE DrawPoints(buf, area, table_rects, PathPoints(x1, y1, x2, y2), 1)

\* the rectangle render_diagram gives table number idx (from 0) of table_count
\* tables on the grid laid over `inner`
TableArea(inner, table_count, idx) ==
    LET cols == ceil_sqrt(table_count)
        rows == (table_count + cols - 1) \div cols
        cell_width == inner.width \div Max(cols, 1)
        cell_height == inner.height \div Max(rows, 1)
        spacing_x == cell_width \div 3
        spacing_y == cell_height \div 3
        table_width == Min(Max(spacing_x, 25), 40)
        table_height == Min(Max(spacing_y, 8), 15)
        x == inner.x + (idx % cols) * (table_width + spacing_x)
        y == inner.y + (idx \div cols) * (table_height + spacing_y)
        available_width == Max(inner.width - (x - inner.x), 0)
        available_height == Max(inner.height - (y - inner.y), 0)
    IN Rect(x, y, Min(table_width, available_width), Min(table_height, available_height))

\* table_positions of render_diagram: name -> (center x, center y, width, height)
TablePositions(inner, tables) ==
    [name \in {tables[i].name : i \in 1..Len(tables)} |->
        LET idx == CHOOSE i \in 1..Len(tables) : tables[i].name = name
            a == TableArea(inner, Len(tables), idx - 1)
        IN <<a.x + a.width \div 2, a.y + a.height \div 2, a.width, a.height>>]

\* table_rects of draw_relationship_arrows
TableRects(table_positions) ==
    {LET pos == table_positions[name]
     IN Rect(pos[1] - pos[3] \div 2, pos[2] - pos[4] \div 2, pos[3], pos[4])
       : name \in DOMAIN table_positions}

\* the glyph a bordered block puts on cell p of its area
BorderGlyph(p, area) ==
    LET left == p[1] = area.x
        right == p[1] = area.x + area.width - 1
        top == p[2] = area.y
        bottom == p[2] = area.y + area.height - 1
    IN IF top /\ left THEN "TopLeft"
       ELSE IF top /\ right THEN "TopRight"
       ELSE IF bottom /\ left THEN "BottomLeft"
       ELSE IF bottom /\ right THEN "BottomRight"
       ELSE IF top \/ bottom THEN HLine
       ELSE IF left \/ right THEN VLine
       ELSE Blank

\* render_table_box: the border, the title on it and the column lines; of a
\* line only its first cell (a letter, '*' or '.') is followed
render_table_box(buf, area, table) ==
    IF area.width < 3 \/ area.height < 3 THEN buf
    ELSE LET inner == Inner(area)
             max_cols_to_show == Min(Max(inner.height - 2, 0), 5)
             shown == Min(Len(table.columns), max_cols_to_show)
             lines == shown + (IF Len(table.columns) > max_cols_to_show THEN 1 ELSE 0)
         IN [p \in DOMAIN buf |->
               IF ~InRect(p, area) THEN buf[p]
               ELSE IF p[2] = area.y /\ p[1] > area.x
                       /\ p[1] <= area.x + Min(Len(table.name), area.width - 2)
               THEN Letter
               ELSE IF InRect(p, inner)
               THEN IF p[1] = inner.x /\ p[2] < inner.y + Min(lines, inner.height)
                    THEN Letter ELSE Blank
               ELSE BorderGlyph(p, area)]

\* the loop of render_diagram over the tables from number idx (from 0) on
RECURSIVE RenderBoxes(_, _, _, _)
RenderBoxes(buf, inner, tables, idx) ==
    IF idx >= Len(tables) THEN buf
    ELSE RenderBoxes(render_table_box(buf, TableArea(inner, Len(tables), idx), tables[idx + 1]),
                     inner, tables, idx + 1)

\* the calls of draw_curved_arrow that draw_relationship_arrows makes: the
\* connected tables and the edge points find_edge_point gives as end points
Routes(diagram, table_positions) ==
    LET connectors == draw_relationship_arrows(diagram, table_positions)
    IN [i \in 1..Len(connectors) |->
          LET from == table_positions[connectors[i].from]
              to == table_positions[connectors[i].to]
              start == find_edge_point(from[1], from[2], from[3], from[4], to[1], to[2])
              end == find_edge_point(to[1], to[2], to[3], to[4], from[1], from[2])
          IN [from |-> connectors[i].from, to |-> connectors[i].to,
              x1 |-> start[1], y1 |-> start[2], x2 |-> end[1], y2 |-> end[2]]]

\* ------------------------------------------ the routing of the connectors
\* the largest number of foreign keys of a table in the routed diagrams
MaxRouteFks == 1

\* the diagrams that are routed: two or three tables, each with up to
\* MaxRouteFks foreign keys to any table
RouteDiagrams ==
    LET names == <<TableAb, TableA, TableC>>
        targets == UNION {[1..n -> {TableAb, TableA, TableC}] : n \in 0..MaxRouteFks}
    IN {[tables |->
           [i \in 1..k |->
              [name |-> names[i],
               columns |-> get_columns(names[i]),
               foreign_keys |->
                  [j \in 1..Len(to[i]) |->
                     [id |-> j - 1, from_table |-> names[i],
                      from_column |-> get_columns(names[i])[1],
                      to_table |-> to[i][j],
                      to_column |-> get_columns(to[i][j])[1]]]]]]
        : k \in {2, 3}, to \in [1..3 -> targets]}

\* the sizes of the inside of the content block (columns, rows)
RouteSizes == {<<38, 9>>, <<40, 9>>, <<38, 14>>, <<40, 14>>}

\* the cells in which the buffer may already hold a letter when the arrows
\* are drawn: none, or one cell of the gap right of the first box
RouteStains == {<<>>} \cup {<<<<x, y>>>> : x \in {27, 29, 30}, y \in {5, 6}}

\* the frame when render_diagram calls draw_relationship_arrows: the content
\* block covers the buffer, its inside is the drawing area, the boxes are drawn
FrameOf(size, diagram, stain) ==
    LET whole == Rect(0, 0, size[1] + 2, size[2] + 2)
        area == Inner(whole)
        cells == (0..(whole.width - 1)) \X (0..(whole.height - 1))
        block == [p \in cells |->
                    IF stain # <<>> /\ p = stain[1] THEN Letter ELSE BorderGlyph(p, whole)]
        table_positions == TablePositions(area, diagram.tables)
        boxes == RenderBoxes(block, area, diagram.tables, 0)
    IN [area |-> area,
        table_rects |-> TableRects(table_positions),
        todo |-> Routes(diagram, table_positions),
        route |-> <<>>,
        before |-> boxes,
        buf |-> boxes]

RouteInit ==
    /\ \E data \in RouteDiagrams :
          /\ state = [AppStateNew(PageSize) EXCEPT
                         !.tables = get_tables(DbInitial, FALSE),
                         !.focus = "Content",
                         !.view_mode = "Diagram",
                         !.diagram_data = Some(data)]
          /\ \E size \in RouteSizes, stain \in RouteStains :
                frame = FrameOf(size, data, stain)
    /\ should_quit = FALSE
    /\ uipc = "draw"
    /\ cmdQ = <<>>
    /\ respQ = <<>>
    /\ sender_alive = TRUE
    /\ receiver_alive = TRUE
    /\ wpc = "recv"
    /\ wcur = NoCmd
    /\ nsent = 2
    /\ budget = 2
    /\ nconsumed = 2
    /\ attempts = <<1, 2>>
    /\ delivered = <<1, 2>>
    /\ nfail = 0
    /\ ndrained = 2
    /\ lastResp = NoResp
    /\ db = DbInitial
    /\ calls = <<>>
    /\ arrows = <<>>

\* the next call of draw_curved_arrow in the loop of draw_relationship_arrows
DrawCurvedArrow ==
    /\ uipc = "draw"
    /\ frame # NoFrame
    /\ frame.todo # <<>>
    /\ LET r == Head(frame.todo)
       IN frame' = [frame EXCEPT
                       !.todo = Tail(frame.todo),
                       !.route = <<r>>,
                       !.before = frame.buf,
                       !.buf = draw_curved_arrow(frame.buf, frame.area, r.x1, r.y1,
                                                 r.x2, r.y2, frame.table_rects)]
    /\ UNCHANGED <<state, should_quit, uipc, nsent, budget, ndrained, lastResp, arrows>>
    /\ UNCHANGED <<cmdQ, respQ, sender_alive, receiver_alive>>
    /\ UNCHANGED workerVars

RouteNext == DrawCurvedArrow

\* draw_relationship_arrows drawing the connectors of a diagram one by one
SpecRoute == RouteInit /\ [][RouteNext]_vars

\* ------------------------------------- the worker under an arbitrary owner
\* The Worker's public interface (send, try_recv, shutdown, drop) driven by
\* an owner that sends any command at any time; the worker thread is the
\* same as in Spec.
ClientMessages ==
    {LoadTables(FALSE), LoadTableRows(TableAb, PageSize, 0),
     ExecuteQuery(<<"a">>, Some(QueryMaxRows)), GetTableInfo(TableA), LoadSchema(TableAb),
     LoadDiagram, UpdateCell(TableAb, 0, "v", <<"a">>)}

\* Worker::send
ClientSend ==
    /\ uipc = "drain"
    /\ nsent < MaxCmds
    /\ InFlight < MaxInFlight
    /\ \E message \in ClientMessages :
          cmdQ' = IF wpc # "done" THEN Append(cmdQ, [id |-> nsent + 1, msg |-> message])
                  ELSE cmdQ
    /\ nsent' = nsent + 1
    /\ budget' = budget + 1
    /\ UNCHANGED <<state, should_quit, uipc, ndrained, lastResp, arrows, frame>>
    /\ UNCHANGED <<respQ, sender_alive, receiver_alive>>
    /\ UNCHANGED workerVars

\* Worker::try_recv returning Ok(Some(response))
ClientTryRecv ==
    /\ uipc = "drain"
    /\ receiver_alive
    /\ respQ # <<>>
    /\ respQ' = Tail(respQ)
    /\ ndrained' = ndrained + 1
    /\ UNCHANGED <<state, should_quit, uipc, nsent, budget, lastResp, arrows, frame>>
    /\ UNCHANGED <<cmdQ, sender_alive, receiver_alive>>
    /\ UNCHANGED workerVars

\* the owner leaves its loop and goes on to Worker::shutdown
ClientQuit ==
    /\ uipc = "drain"
    /\ uipc' = "quit"
    /\ UNCHANGED <<state, should_quit, nsent, budget, ndrained, lastResp, arrows, frame>>
    /\ UNCHANGED <<cmdQ, respQ, sender_alive, receiver_alive>>
    /\ UNCHANGED workerVars

WorkerNext ==
    \/ WorkerRecv
    \/ WorkerDisconnected
    \/ WorkerExec
    \/ ClientSend
    \/ ClientTryRecv
    \/ ClientQuit
    \/ ShutdownSend
    \/ ShutdownJoin
    \/ DropSender
    \/ DropReceiver

SpecWorker == Init /\ [][WorkerNext]_vars

\* the operating system schedules the worker thread: each of its steps that
\* stays possible is eventually taken (every database call returns)
WorkerFairness ==
    /\ WF_vars(WorkerRecv)
    /\ WF_vars(WorkerDisconnected)
    /\ WF_vars(WorkerExec)

\* the number of commands the owner sends in the runs of FairSpecWorker
MaxLiveCmds == 4

\* Worker::send while fewer than MaxLiveCmds commands have been sent
LiveClientSend == nsent < MaxLiveCmds /\ ClientSend

LiveWorkerNext ==
    \/ WorkerRecv
    \/ WorkerDisconnected
    \/ WorkerExec
    \/ LiveClientSend
    \/ ClientTryRecv
    \/ ClientQuit
    \/ ShutdownSend
    \/ ShutdownJoin
    \/ DropSender
    \/ DropReceiver

FairSpecWorker == Init /\ [][LiveWorkerNext]_vars /\ WorkerFairness

\* ------------------------------------- the worker over any small database
\* the largest number of rows of table Ab in the small databases of SpecDb
MaxRows == 3
\* the number of commands the owner of SpecDb sends after LoadTables
MaxDbCmds == 2

\* n rows of table Ab whose id ascends or descends with the rowid
DbRowsOf(n, descending) ==
    [i \in 1..n |-> <<VInt(IF descending THEN n + 1 - i ELSE i), VText(<<"x">>)>>]

\* the databases of SpecDb: table Ab with up to MaxRows rows, with or without
\* a UNIQUE index on id, and with as many rows as the default query cap and
\* one more
DbChoices ==
    {[DbInitial EXCEPT ![TableAb] = [columns |-> DbColumns(TableAb),
                                     rows |-> DbRowsOf(n, descending),
                                     index |-> index]]
        : n \in 0..MaxRows, descending \in BOOLEAN, index \in {None, Some(0)}}
    \cup {[DbInitial EXCEPT ![TableAb].rows = DbRowsOf(n, FALSE)]
            : n \in {DefaultMaxRows, DefaultMaxRows + 1}}

\* the texts UpdateCell carries in SpecDb
NewValues ==
    {<<>>, <<"N", "U", "L", "L">>, <<"7">>, <<"-", "7">>, <<"a">>, <<"'">>,
     <<"i", "n", "f">>, <<".", "5">>}

\* the commands of SpecDb: a page of Ab for every page size and page index, a
\* query for all rows of Ab under every cap, an update of any cell of Ab
DbMessages ==
    {LoadTableRows(TableAb, p, k * p) : p \in 1..MaxRows, k \in 0..MaxRows}
    \cup {ExecuteQuery(SelectAll(TableAb), m)
            : m \in {None} \cup {Some(j) : j \in 0..(MaxRows + 1)}}
    \cup {UpdateCell(TableAb, i, c, v)
            : i \in 0..MaxRows, c \in {"id", "v", "w"}, v \in NewValues}

DbInit == \E d \in DbChoices : InitOn(d)

\* Worker::send by an owner that waits for each answer before the next command
DbClientSend ==
    /\ uipc = "drain"
    /\ nsent < 1 + MaxDbCmds
    /\ InFlight = 0
    /\ \E message \in DbMessages :
          cmdQ' = Append(cmdQ, [id |-> nsent + 1, msg |-> message])
    /\ nsent' = nsent + 1
    /\ budget' = budget + 1
    /\ UNCHANGED <<state, should_quit, uipc, ndrained, lastResp, arrows, frame>>
    /\ UNCHANGED <<respQ, sender_alive, receiver_alive>>
    /\ UNCHANGED workerVars

DbNext ==
    \/ WorkerRecv
    \/ WorkerExec
    \/ DbClientSend
    \/ ClientTryRecv

SpecDb == DbInit /\ [][DbNext]_vars


\* ------------------------------------------------------------- properties
\* number of occurrences of a send number in a log
Occurrences(log, id) == Cardinality({k \in 1..Len(log) : log[k] = id})
\* the worker has consumed command id and left its match arm
Finished(id) == id <= nconsumed /\ ~(wpc = "exec" /\ wcur.id = id)

\* C1: the worker executes commands one at a time in the order they were
\* enqueued: the command being executed is the nconsumed-th one sent, and
\* when the k-th command starts the responses of exactly the commands
\* 1..k-1 have been sent, in that order; at most one command is in progress.
C1_OneAtATimeInOrder ==
    LET busy == IF wpc = "exec" THEN 1 ELSE 0
    IN /\ attempts = [i \in 1..(nconsumed - busy) |-> i]
       /\ wpc = "exec" => wcur.id = nconsumed
       /\ nconsumed - Len(attempts) \in {0, 1}

C1_Witness == wpc = "exec" /\ nconsumed >= 3 /\ cmdQ # <<>>

C3_DrainedInSendOrder ==
    lastResp # NoResp => lastResp.id = ndrained

C3_Witness == ndrained >= 4 /\ lastResp.id = 4 /\ lastResp.cmd = "LoadTableRows"

\* C4: once the worker thread has terminated (it consumed Shutdown) it
\* consumes no further command and sends no further response; a pending
\* Worker::shutdown leads to the termination of the thread; and
\* Worker::shutdown has returned only if the thread has terminated.
C4_ShutdownStopsAndJoins ==
    /\ [][wpc = "done" => (wpc' = "done" /\ UNCHANGED <<wcur, nconsumed, attempts, delivered>>)]_vars
    /\ [](uipc = "exited" => wpc = "done")
    /\ (uipc = "join") ~> (wpc = "done")

C4_Witness == uipc = "exited" /\ wpc = "done" /\ nconsumed >= 2 /\ nconsumed = nsent

\* C5: when the sender is dropped without a Shutdown the worker thread
\* eventually terminates, and the step in which it notices the closed
\* channel sends no response.
C5_SilentExitOnDisconnect ==
    /\ (~sender_alive /\ uipc \in {"dropping", "aborted"}) ~> (wpc = "done")
    /\ [][(wpc = "recv" /\ cmdQ = <<>> /\ wpc' = "done")
            => UNCHANGED <<respQ, attempts, delivered>>]_vars

C5_Witness == uipc = "aborted" /\ wpc = "done" /\ nconsumed >= 2 /\ cmdQ = <<>>

\* the command type each loading flag belongs to
Subsystems == {"tables", "rows", "query", "schema", "diagram"}
CommandOf(subsystem) ==
    CASE subsystem = "tables" -> "LoadTables"
      [] subsystem = "rows" -> "LoadTableRows"
      [] subsystem = "query" -> "ExecuteQuery"
      [] subsystem = "schema" -> "LoadSchema"
      [] subsystem = "diagram" -> "LoadDiagram"
LoadingFlag(st, subsystem) ==
    CASE subsystem = "tables" -> st.tables_loading
      [] subsystem = "rows" -> st.rows_loading
      [] subsystem = "query" -> st.query_loading
      [] subsystem = "schema" -> st.schema_loading
      [] subsystem = "diagram" -> st.diagram_loading
\* a command of this type was dispatched and its response is not applied yet
Outstanding(type) ==
    \/ \E k \in 1..Len(cmdQ) : cmdQ[k].msg.type = type
    \/ wpc = "exec" /\ wcur.msg.type = type
    \/ \E k \in 1..Len(respQ) : respQ[k].cmd = type

\* C6: while a command of a subsystem is dispatched and its response has not
\* been applied, the loading flag of that subsystem is true.
C6_LoadingWhileOutstanding ==
    \A subsystem \in Subsystems :
        Outstanding(CommandOf(subsystem)) => LoadingFlag(state, subsystem)

\* the step of process_worker_responses that applies an Error response
ErrorApplied ==
    /\ uipc = "drain"
    /\ respQ # <<>>
    /\ Head(respQ).resp.type = "Error"
    /\ ndrained' = ndrained + 1

\* the subsystem an Error is attributed to: the first whose condition holds
Attributed(st) ==
    IF st.query_loading THEN "query"
    ELSE IF st.rows_loading THEN "rows"
    ELSE IF st.tables_loading THEN "tables"
    ELSE IF st.schema_loading THEN "schema"
    ELSE IF st.diagram_loading THEN "diagram"
    ELSE IF st.edit_mode THEN "edit"
    ELSE "generic"

\* C7: applying an Error clears the loading flag of the one subsystem it is
\* attributed to (none for edit mode and generic), leaves every other
\* loading flag unchanged and stores the message as the current error.
C7_ErrorAttribution ==
    [][ErrorApplied =>
          /\ \A subsystem \in Subsystems :
                LoadingFlag(state', subsystem) =
                    (LoadingFlag(state, subsystem) /\ subsystem # Attributed(state))
          /\ state'.query_error = Some(Head(respQ).resp.message)]_vars

C7_Witness ==
    /\ lastResp.resp.type = "Error"
    /\ state.query_error = Some(lastResp.resp.message)
    /\ ~state.schema_loading
    /\ state.diagram_loading

\* the Enter key handled while a cell is being edited
SaveKeyHandled ==
    /\ uipc = "poll"
    /\ state.edit_mode \/ state.full_edit_mode
    /\ LET app == handle_key_event(AppOf(state, should_quit), Code("Enter"))
       IN /\ state' = app.state
          /\ cmdQ' = cmdQ \o Tagged(app.sent, nsent)
          /\ uipc' = "drain"

\* exactly one command was appended and it is the UpdateCell of the edited cell
OneUpdateCellSent ==
    /\ Len(cmdQ') = Len(cmdQ) + 1
    /\ SubSeq(cmdQ', 1, Len(cmdQ)) = cmdQ
    /\ IsSome(state.current_table) /\ IsSome(state.editing_row) /\ IsSome(state.editing_col)
    /\ IsSome(state.table_rows)
    /\ Unwrap(state.editing_col) < Len(Unwrap(state.table_rows).columns)
    /\ cmdQ'[Len(cmdQ')].msg =
          UpdateCell(Unwrap(state.current_table),
                     state.current_page * state.page_size + Unwrap(state.editing_row),
                     Unwrap(state.table_rows).columns[Unwrap(state.editing_col) + 1],
                     state.edit_buffer)

SaveTargetValid ==
    /\ IsSome(state.current_table) /\ IsSome(state.editing_row) /\ IsSome(state.editing_col)
    /\ IsSome(state.table_rows)
    /\ Unwrap(state.editing_col) < Len(Unwrap(state.table_rows).columns)

CellUpdatedApplied ==
    /\ uipc = "drain"
    /\ respQ # <<>>
    /\ Head(respQ).resp.type = "CellUpdated"
    /\ ndrained' = ndrained + 1

\* C9: applying CellUpdated dispatches a reload of the current page of the
\* current table and leaves edit mode entirely.
C9_CellUpdatedReloadsAndExits ==
    [][CellUpdatedApplied =>
          /\ IsSome(state.current_table)
          /\ Len(cmdQ') = Len(cmdQ) + 2
          /\ cmdQ'[Len(cmdQ) + 1].msg =
                LoadTableRows(Unwrap(state.current_table), state.page_size,
                              state.current_page * state.page_size)
          /\ ~state'.edit_mode /\ ~state'.full_edit_mode
          /\ state'.editing_row = None /\ state'.editing_col = None
          /\ state'.edit_buffer = <<>> /\ state'.edit_cursor_pos = 0]_vars

C9_Witness ==
    /\ lastResp.resp.type = "CellUpdated"
    /\ ~state.edit_mode
    /\ state.rows_loading
    /\ state.current_page = 1
    /\ \E k \in 1..Len(cmdQ) : cmdQ[k].msg = LoadTableRows(TableAb, PageSize, PageSize)

\* C10: applying an Error leaves the edit-mode fields unchanged, and the
\* Error that answers an UpdateCell has its message stored as the current
\* error.
C10_ErrorKeepsEditMode ==
    [][ErrorApplied =>
          /\ state'.edit_mode = state.edit_mode
          /\ state'.full_edit_mode = state.full_edit_mode
          /\ state'.editing_row = state.editing_row
          /\ state'.editing_col = state.editing_col
          /\ state'.edit_buffer = state.edit_buffer
          /\ state'.edit_cursor_pos = state.edit_cursor_pos
          /\ Head(respQ).cmd = "UpdateCell"
                => state'.query_error = Some(Head(respQ).resp.message)]_vars

C10_Witness ==
    /\ lastResp.resp.type = "Error"
    /\ lastResp.cmd = "UpdateCell"
    /\ state.edit_mode
    /\ state.edit_buffer # <<>>
    /\ state.query_error = Some("Failed to update cell")

\* the key event `event` handled by handle_key_event in this step
KeyHandled(event) ==
    /\ uipc = "poll"
    /\ uipc' = "drain"
    /\ LET app == handle_key_event(AppOf(state, should_quit), event)
       IN /\ state' = app.state
          /\ should_quit' = app.should_quit
          /\ cmdQ' = cmdQ \o Tagged(app.sent, nsent)

\* Enter reaches the Focus::Tables branch with a table under the selection
\* and the view is not Schema
TableSelected ==
    /\ ~state.full_edit_mode /\ ~state.edit_mode
    /\ ~(state.show_sql_editor /\ state.focus = "Content")
    /\ state.focus = "Tables"
    /\ IsSome(selected_table(state))
    /\ state.view_mode # "Schema"
    /\ KeyHandled(Code("Enter"))

\* C11: selecting a table from the table list dispatches a LoadTableRows
\* with offset 0 and leaves current_page = 0.
C11_SwitchLoadsPageZero ==
    [][TableSelected =>
          /\ state'.current_page = 0
          /\ Len(cmdQ') = Len(cmdQ) + 2
          /\ cmdQ'[Len(cmdQ) + 1].msg.type = "LoadTableRows"
          /\ cmdQ'[Len(cmdQ) + 1].msg.offset = 0]_vars

\* number of commands of this type dispatched and not yet applied
CountOutstanding(type) ==
    Cardinality({k \in 1..Len(cmdQ) : cmdQ[k].msg.type = type})
    + (IF wpc = "exec" /\ wcur.msg.type = type THEN 1 ELSE 0)
    + Cardinality({k \in 1..Len(respQ) : respQ[k].cmd = type})

\* C15: at most one LoadDiagram is outstanding at any time, and no
\* LoadDiagram is dispatched once diagram data is cached.
C15_OneDiagramLoad ==
    /\ [](CountOutstanding("LoadDiagram") <= 1)
    /\ [][IsSome(state.diagram_data) =>
            \A k \in (Len(cmdQ) + 1)..Len(cmdQ') : cmdQ'[k].msg.type # "LoadDiagram"]_vars

\* no editor captures the key: neither edit mode nor the SQL editor
NothingCaptures ==
    /\ ~state.full_edit_mode /\ ~state.edit_mode
    /\ ~(state.show_sql_editor /\ state.focus = "Content")

\* Left handled with focus on Content at page 0, nothing capturing
LeftAtPageZero ==
    /\ NothingCaptures
    /\ state.focus = "Content"
    /\ state.current_page = 0
    /\ KeyHandled(Code("Left"))

\* C12: Left at page 0 leaves current_page at 0, dispatches no command and
\* leaves the loaded rows and rows_loading unchanged.
C12_LeftAtPageZeroIsNoOp ==
    [][LeftAtPageZero =>
          /\ state'.current_page = 0
          /\ cmdQ' = cmdQ
          /\ state'.table_rows = state.table_rows
          /\ state'.rows_loading = state.rows_loading]_vars

\* C13: whenever the filtered table list is non-empty, selected_table_index
\* is a valid index into it.
C13_SelectionWithinFiltered ==
    filtered_tables(state) # <<>>
        => state.selected_table_index < Len(filtered_tables(state))

\* Up or Down handled by the table list
ListMove(code) ==
    /\ NothingCaptures
    /\ state.focus = "Tables"
    /\ KeyHandled(Code(code))

EnterOnLoadedRows ==
    /\ state.focus = "Content"
    /\ state.view_mode = "Rows"
    /\ ~state.edit_mode /\ ~state.full_edit_mode
    /\ IsSome(state.table_rows)
    /\ Unwrap(state.table_rows).rows # <<>>
    /\ Unwrap(state.table_rows).columns # <<>>
    /\ KeyHandled(Code("Enter"))

\* edit mode targets cell (0,0) and the buffer holds that cell's text
EditingFirstCell ==
    /\ state'.edit_mode
    /\ state'.editing_row = Some(0)
    /\ state'.editing_col = Some(0)
    /\ state'.edit_buffer = display(Unwrap(state.table_rows).rows[1][1], DisplayFull)

\* C20 as stated: Enter with focus on Content, view Rows, no edit active and
\* a loaded result with a row and a column enters edit mode on cell (0,0)
\* with the buffer seeded from the cell; edit mode is entered in no other way.
C20_EnterEditsFirstCell ==
    /\ [][EnterOnLoadedRows => EditingFirstCell]_vars
    /\ [][(~state.edit_mode /\ state'.edit_mode) => EnterOnLoadedRows]_vars

\* C20 amended: the same, provided the SQL editor is not shown (while it is
\* shown with focus on Content, Enter belongs to the editor and executes the
\* query instead).
C20_EnterEditsFirstCellEditorClosed ==
    /\ [][(EnterOnLoadedRows /\ ~state.show_sql_editor) => EditingFirstCell]_vars
    /\ [][(~state.edit_mode /\ state'.edit_mode)
            => (EnterOnLoadedRows /\ ~state.show_sql_editor)]_vars

C20_Witness ==
    /\ state.edit_mode
    /\ state.editing_row = Some(0) /\ state.editing_col = Some(0)
    /\ state.current_table = Some(TableA)
    /\ state.edit_buffer = <<"y">>
    /\ ~state.show_sql_editor

\* the text buffers a step modifies
Modified ==
    {b \in {"edit", "sql", "filter"} :
        CASE b = "edit" -> state'.edit_buffer # state.edit_buffer
          [] b = "sql" -> state'.sql_query # state.sql_query
          [] b = "filter" -> state'.table_filter # state.table_filter}

\* the buffer that captures input by the precedence full editor, inline
\* edit, SQL editor, table filter
CaptureTarget ==
    IF state.full_edit_mode \/ state.edit_mode THEN {"edit"}
    ELSE IF state.show_sql_editor /\ state.focus = "Content" THEN {"sql"}
    ELSE IF state.focus = "Tables" THEN {"filter"}
    ELSE {}

ViewToggled ==
    /\ ~state.full_edit_mode
    /\ ~state.show_sql_editor
    /\ state.focus = "Content"
    /\ KeyHandled(Plain("s"))

\* the step of process_worker_responses that applies a QueryExecuted response
QueryExecutedApplied ==
    /\ uipc = "drain"
    /\ respQ # <<>>
    /\ Head(respQ).resp.type = "QueryExecuted"
    /\ ndrained' = ndrained + 1

C18_CloseEditorClears ==
    [][(state.show_sql_editor /\ ~state'.show_sql_editor) =>
          /\ state'.sql_query = <<>>
          /\ state'.sql_cursor_pos = 0
          /\ state'.query_result = None
          /\ state'.query_error = None
          /\ state.view_mode = "Query" =>
                /\ state'.view_mode = "Rows"
                /\ IsSome(state.current_table) =>
                      /\ Len(cmdQ') = Len(cmdQ) + 2
                      /\ cmdQ'[Len(cmdQ) + 1].msg =
                            LoadTableRows(Unwrap(state.current_table), state.page_size,
                                          state.current_page * state.page_size)
                      /\ state'.rows_loading]_vars

C18_Witness ==
    /\ ~state.show_sql_editor
    /\ state.view_mode = "Rows"
    /\ state.focus = "Tables"
    /\ state.rows_loading
    /\ state.query_result = None
    /\ nsent = 6
    /\ Len(cmdQ) = 2
    /\ cmdQ[1].msg.type = "LoadTableRows"
    /\ \E k \in 1..Len(attempts) : attempts[k] = 4

\* Enter without Shift handled by the SQL editor on a non-blank buffer
QuerySubmitted ==
    /\ ~state.full_edit_mode /\ ~state.edit_mode
    /\ state.show_sql_editor /\ state.focus = "Content"
    /\ ~TrimIsEmpty(state.sql_query)
    /\ KeyHandled(Code("Enter"))

\* C19: executing a query clears the error, sets query_loading and sends
\* exactly one ExecuteQuery with the buffer text and max_rows = 1000; every
\* ExecuteQuery in the command channel carries a row cap of at most 1000.
C19_ExecuteQueryCapped ==
    /\ [][QuerySubmitted =>
            /\ state'.query_error = None
            /\ state'.query_loading
            /\ Len(cmdQ') = Len(cmdQ) + 1
            /\ SubSeq(cmdQ', 1, Len(cmdQ)) = cmdQ
            /\ cmdQ'[Len(cmdQ')].msg = ExecuteQuery(state.sql_query, Some(1000))]_vars
    /\ [](\A k \in 1..Len(cmdQ) :
            cmdQ[k].msg.type = "ExecuteQuery" =>
                /\ IsSome(cmdQ[k].msg.max_rows)
                /\ Unwrap(cmdQ[k].msg.max_rows) <= 1000)

C19_Witness ==
    /\ state.query_loading
    /\ state.query_error = None
    /\ state.sql_query = <<"a">>
    /\ cmdQ # <<>>
    /\ cmdQ[Len(cmdQ)].msg = ExecuteQuery(<<"a">>, Some(1000))
    /\ IsSome(state.query_result)

\* ------------------------------------------------------------------- C21
\* C21: on entering edit mode, full-edit mode is promoted exactly when the
\* seeded text is longer than 50 characters or contains a newline.
EditModeEntered ==
    /\ KeyHandled(Code("Enter"))
    /\ ~state.edit_mode
    /\ state'.edit_mode

C21_PromotionByCharacters ==
    [][EditModeEntered =>
          (state'.full_edit_mode <=>
              (Len(state'.edit_buffer) > FullEditLen \/ Contains(state'.edit_buffer, NL)))]_vars

\* ------------------------------------------------------------------- C22
\* C22: Escape in full-edit mode only clears full_edit_mode; Escape in inline
\* edit mode cancels editing (edit_mode false, target cleared, buffer empty);
\* an Escape pressed while editing leaves the SQL editor, the help overlay and
\* the table filter as they are.
EscWhileEditing ==
    /\ KeyHandled(Code("Esc"))
    /\ state.full_edit_mode \/ state.edit_mode

PaneAfter(event) ==
    CASE state.full_edit_mode -> state.focus
      [] state.focus = "Tables" -> "Content"
      [] state.focus = "Content" -> "Tables"
      [] state.focus = "Info" -> IF "SHIFT" \in event.mods THEN "Content" ELSE "Tables"

C23_FocusNeverInfo ==
    /\ [](/\ state.focus \in {"Tables", "Content"}
          /\ next_pane([focus |-> "Info"]).focus = "Tables"
          /\ prev_pane([focus |-> "Info"]).focus = "Content")
    /\ [][\A event \in {Code("Tab"), Shift("Tab")} :
            KeyHandled(event) => state'.focus = PaneAfter(event)]_vars

\* Tab has moved the focus from the content pane to the table list
C23_Witness ==
    /\ state.focus = "Tables"
    /\ uipc = "drain"
    /\ ~state.full_edit_mode

\* ------------------------------------------------------------------- C24
\* the worker has executed a command of the given type and sent its answer
Executed(type) ==
    /\ wpc = "exec" /\ wcur.msg.type = type
    /\ wpc' = "recv"
    /\ Len(respQ') = Len(respQ) + 1
Answer == respQ'[Len(respQ')].resp

\* C24: a paged read with limit p > 0 and offset k * p of a table of n rows
\* returns min(p, n - k * p) rows when k * p < n and no rows otherwise, the
\* rows being those at positions k * p .. in table order, and truncated is
\* false.
C24_PagedRead ==
    [][(Executed("LoadTableRows") /\ Answer.type = "TableRowsLoaded") =>
          LET all == db[wcur.msg.table_name].rows
              n == Len(all)
              p == wcur.msg.limit
              offset == wcur.msg.offset
              page == Answer.result.rows
          IN /\ p > 0 /\ \E k \in 0..MaxRows : offset = k * p
             /\ offset < n => Len(page) = (IF p <= n - offset THEN p ELSE n - offset)
             /\ offset >= n => page = <<>>
             /\ \A j \in 1..Len(page) : page[j] = all[offset + j]
             /\ ~Answer.result.truncated]_vars

\* the short last page of a three-row table read with page size 2
C24_Witness ==
    /\ respQ # <<>>
    /\ Head(respQ).resp.type = "TableRowsLoaded"
    /\ Head(respQ).resp.result.of_offset = 2
    /\ Len(Head(respQ).resp.result.rows) = 1
    /\ Len(db[TableAb].rows) = 3
    /\ Head(respQ).resp.result.rows[1] = db[TableAb].rows[3]

\* ------------------------------------------------------------------- C25
\* C25: a query run with max_rows = m (1000 when absent) whose underlying
\* result has more than m rows returns exactly the first m rows with
\* truncated = true; with m or fewer rows it returns all of them in order
\* with truncated = false.
C25_QueryCap ==
    [][(Executed("ExecuteQuery") /\ Answer.type = "QueryExecuted"
        /\ wcur.msg.query = SelectAll(TableAb)) =>
          LET all == db[TableAb].rows
              m == IF IsSome(wcur.msg.max_rows) THEN Unwrap(wcur.msg.max_rows) ELSE 1000
              result == Answer.result
          IN /\ Len(all) > m =>
                  /\ Len(result.rows) = m
                  /\ \A j \in 1..m : result.rows[j] = all[j]
                  /\ result.truncated
             /\ Len(all) <= m =>
                  /\ result.rows = all
                  /\ ~result.truncated]_vars

\* a query without max_rows over 1001 rows has been answered with 1000 rows,
\* truncated
C25_Witness ==
    /\ respQ # <<>>
    /\ Head(respQ).resp.type = "QueryExecuted"
    /\ Len(db[TableAb].rows) = 1001
    /\ Len(Head(respQ).resp.result.rows) = 1000
    /\ Head(respQ).resp.result.truncated

\* ------------------------------------------------------------------- C26
\* C26: after update_cell(table, i, column, v) succeeds, a paged read of that
\* table whose page contains absolute row index i shows the new value in
\* that column of row i, and every other cell of the table is unchanged.
C26_WriteThenRead ==
    [][(Executed("UpdateCell") /\ Answer.type = "CellUpdated") =>
          LET t == wcur.msg.table_name
              i == wcur.msg.row_index
              c == CHOOSE q \in 1..Len(db[t].columns) :
                      db[t].columns[q] = wcur.msg.column_name
              value == Unwrap(evaluate(sql_value(wcur.msg.new_value)))
          IN \A p \in 1..MaxRows, k \in 0..MaxRows :
                (k * p <= i /\ i < k * p + p) =>
                   LET before == get_table_rows(db, t, p, k * p).rows
                       after == get_table_rows(db', t, p, k * p).rows
                   IN /\ Len(after) = Len(before)
                      /\ after[i - k * p + 1][c] = value
                      /\ \A r \in 1..Len(after) : \A cc \in 1..Len(after[r]) :
                            (r # i - k * p + 1 \/ cc # c) => after[r][cc] = before[r][cc]]_vars

\* ---- the LoadSchema and LoadDiagram arms ----

\* the positions of the failed calls among the calls of the arm executed last
FailedCalls == {i \in 1..Len(calls') : ~calls'[i].ok}
FirstFailed == CHOOSE i \in FailedCalls : \A j \in FailedCalls : i <= j

\* C27: LoadSchema answers SchemaLoaded only if the columns, indexes and
\* foreign-keys calls all succeeded; otherwise it answers the Error of the
\* first failing call in that order, and no call later in that order than the
\* first failure is issued.
C27_LoadSchemaShortCircuit ==
    [][Executed("LoadSchema") =>
          /\ Answer.type \in {"SchemaLoaded", "Error"}
          /\ Answer.type = "SchemaLoaded" => (Len(calls') = 3 /\ FailedCalls = {})
          /\ Answer.type = "Error" =>
                /\ FailedCalls # {}
                /\ Answer = Error(CASE calls'[FirstFailed].fn = "get_columns" ->
                                         "Failed to load schema: get_columns"
                                    [] calls'[FirstFailed].fn = "get_indexes" ->
                                         "Failed to load schema: get_indexes"
                                    [] calls'[FirstFailed].fn = "get_foreign_keys" ->
                                         "Failed to load schema: get_foreign_keys")
                /\ Len(calls') = FirstFailed]_vars

\* C28: when listing the tables succeeds LoadDiagram answers DiagramLoaded
\* with, in listing order, exactly the non-internal tables both of whose calls
\* (columns, foreign keys) succeeded, a table failing either call being left
\* out; Error is answered only when the listing itself fails.
C28_LoadDiagramBestEffort ==
    [][Executed("LoadDiagram") =>
          LET listing_failed == calls' = <<>> /\ nfail' = nfail + 1
              listed == SelectSeq(DbTables,
                           LAMBDA t : Len(t) < 7 \/ SubSeq(t, 1, 7) # <<"s", "q", "l", "i", "t", "e", "_">>)
              succeeded(t) == \A j \in 1..Len(calls') : calls'[j].arg = t => calls'[j].ok
              kept == SelectSeq(listed, succeeded)
          IN /\ Answer.type \in {"DiagramLoaded", "Error"}
             /\ Answer.type = "Error" <=> listing_failed
             /\ Answer.type = "DiagramLoaded" =>
                   /\ \A t \in {listed[j] : j \in 1..Len(listed)} :
                         /\ \E j \in 1..Len(calls') :
                               calls'[j].arg = t /\ calls'[j].fn = "get_columns"
                         /\ \E j \in 1..Len(calls') :
                               calls'[j].arg = t /\ calls'[j].fn = "get_foreign_keys"
                   /\ Len(Answer.data.tables) = Len(kept)
                   /\ \A j \in 1..Len(kept) :
                         Answer.data.tables[j] =
                            [name |-> kept[j], columns |-> get_columns(kept[j]),
                             foreign_keys |-> get_foreign_keys(kept[j])]]_vars

\* a diagram has been answered from which a table whose call failed is missing
C28_Witness ==
    /\ respQ # <<>>
    /\ respQ[Len(respQ)].resp.type = "DiagramLoaded"
    /\ \E j \in 1..Len(calls) : ~calls[j].ok
    /\ Len(respQ[Len(respQ)].resp.data.tables) = 2

\* ---- the drain of the main loop ----

\* C29: a drain that finds the result channel empty goes on to the poll when
\* the worker thread lives, and when the worker thread has terminated it
\* reports an error and the run aborts instead of going on.
C29_DisconnectedDrainAborts ==
    [][(uipc = "drain" /\ respQ = <<>> /\ uipc' # uipc) =>
          IF wpc = "done" THEN uipc' \in {"dropping", "aborted"} ELSE uipc' = "poll"]_vars

\* ---- the connectors of the diagram ----

\* the unordered pairs of tables the connectors drawn last join
Connected == {{arrows'[i].from, arrows'[i].to} : i \in 1..Len(arrows')}

\* C30: a connector is drawn for the pair {A, B} exactly when A differs from
\* B, both tables are in the layout and a foreign key links them in either
\* direction; such a pair gets exactly one connector however many foreign keys
\* link it, and a foreign key from a table to itself produces none.
C30_ConnectorsPerUnorderedPair ==
    [][(uipc = "draw" /\ uipc' = "drain") =>
          LET tables == Unwrap(state.diagram_data).tables
              layout == {tables[i].name : i \in 1..Len(tables)}
              links == UNION {{{tables[i].foreign_keys[j].from_table,
                                tables[i].foreign_keys[j].to_table}
                               : j \in 1..Len(tables[i].foreign_keys)}
                              : i \in 1..Len(tables)}
          IN /\ \A A \in {TableAb, TableA, TableC}, B \in {TableAb, TableA, TableC} :
                   {A, B} \in Connected <=>
                      (A # B /\ A \in layout /\ B \in layout /\ {A, B} \in links)
             /\ \A i \in 1..Len(arrows'), j \in 1..Len(arrows') :
                   {arrows'[i].from, arrows'[i].to} = {arrows'[j].from, arrows'[j].to} => i = j
             /\ \A i \in 1..Len(arrows') : arrows'[i].from # arrows'[i].to]_vars

\* one connector has been drawn for two tables that reference each other, one
\* of which also references itself
C30_Witness ==
    /\ uipc = "drain"
    /\ Len(arrows) = 1
    /\ LET tables == Unwrap(state.diagram_data).tables
       IN /\ \E j \in 1..Len(tables[1].foreign_keys) :
                tables[1].foreign_keys[j].to_table = tables[2].name
          /\ \E j \in 1..Len(tables[2].foreign_keys) :
                tables[2].foreign_keys[j].to_table = tables[1].name
          /\ \E j \in 1..Len(tables[2].foreign_keys) :
                tables[2].foreign_keys[j].to_table = tables[2].name

\* ---- stale results and loading flags ----

\* no command is queued or executing and every response has been drained
Quiescent == cmdQ = <<>> /\ wpc # "exec" /\ respQ = <<>>

\* the loaded table_rows is the answer to a LoadTableRows for current_table
\* at offset current_page * page_size
RowsOfCurrentPage ==
    /\ IsSome(state.current_table)
    /\ Unwrap(state.table_rows).of_table = Unwrap(state.current_table)
    /\ Unwrap(state.table_rows).of_offset = state.current_page * state.page_size

\* C31: whenever a save dispatches an UpdateCell, the loaded table_rows was
\* produced by a LoadTableRows for current_table at offset current_page *
\* page_size, so row_index is the absolute position of the displayed row.
C31_SaveTargetsDisplayedRow ==
    [][(SaveKeyHandled /\ OneUpdateCellSent) => RowsOfCurrentPage]_vars

\* C32: in every quiescent state table_rows, if present, is the result of the
\* load for the current table at the current page.
C32_NoStaleRowsWhenQuiescent ==
    (Quiescent /\ IsSome(state.table_rows)) => RowsOfCurrentPage

\* C33: in every quiescent state all five loading flags are false.
C33_NoLoadingWhenQuiescent ==
    Quiescent => \A subsystem \in Subsystems : ~LoadingFlag(state, subsystem)

\* ---- keys in cell edit mode ----

\* the unmodified character key c is handled while a cell is being edited
CharKeyWhileEditing(c) ==
    /\ uipc = "poll" /\ uipc' # "poll"
    /\ state.edit_mode \/ state.full_edit_mode
    /\ LET app == handle_key_event(AppOf(state, should_quit), Plain(c))
       IN /\ state' = app.state
          /\ should_quit' = app.should_quit
          /\ cmdQ' = cmdQ \o Tagged(app.sent, nsent)

\* C34: while cell edit mode is active an unmodified character key only
\* inserts the character into the edit buffer at the cursor: it does not set
\* should_quit, change the view mode or the focus, toggle the help overlay or
\* the SQL editor, or leave edit mode.
C34_CharKeyOnlyInserts ==
    [][\A c \in {"e", "q", "d", "s", "?"} :
          CharKeyWhileEditing(c) =>
             /\ state'.edit_buffer =
                   Insert(state.edit_buffer,
                          Min(state.edit_cursor_pos, Len(state.edit_buffer)), c)
             /\ should_quit' = should_quit
             /\ state'.view_mode = state.view_mode
             /\ state'.focus = state.focus
             /\ state'.show_help = state.show_help
             /\ state'.show_sql_editor = state.show_sql_editor
             /\ state'.edit_mode = state.edit_mode
             /\ state'.full_edit_mode = state.full_edit_mode]_vars

(* C35: in every reachable state in which the SQL editor is closed, no query
   result is held and the view mode is not Query. *)
C35_ClosedEditorHoldsNoQuery ==
    ~state.show_sql_editor =>
        /\ state.query_result = None
        /\ state.view_mode # "Query"

\* ------------------------------------------------------------------- C36
\* an arrow key handled while the inline editor (not the full editor) is open
ArrowWhileInlineEditing(code) ==
    /\ KeyHandled(Code(code))
    /\ state.edit_mode
    /\ ~state.full_edit_mode
    /\ IsSome(state.table_rows)
    /\ IsSome(state.editing_row)
    /\ IsSome(state.editing_col)

\* the target cell one step from (row, col) in the direction of the key
Stepped(code, row, col) ==
    CASE code = "Up" -> <<row - 1, col>>
      [] code = "Down" -> <<row + 1, col>>
      [] code = "Left" -> <<row, col - 1>>
      [] code = "Right" -> <<row, col + 1>>

\* (row, col) lies inside the loaded result's rows and columns
InsideResult(st, target) ==
    /\ target[1] >= 0
    /\ target[1] < Len(Unwrap(st.table_rows).rows)
    /\ target[2] >= 0
    /\ target[2] < Len(Unwrap(st.table_rows).columns)

(* C36: in inline edit mode an arrow key that changes the target cell reseeds
   the edit buffer from the newly targeted cell's value and re-evaluates the
   full-edit promotion (full_edit_mode afterwards iff the new text exceeds 50
   characters or contains a newline); a move that would leave the loaded
   result's rows or columns leaves the target unchanged. *)
C36_ArrowMoveReseeds ==
    [][\A code \in {"Up", "Down", "Left", "Right"} :
          ArrowWhileInlineEditing(code) =>
              LET target == <<Unwrap(state.editing_row), Unwrap(state.editing_col)>>
                  next == Stepped(code, target[1], target[2])
              IN IF InsideResult(state, next)
                 THEN /\ state'.editing_row = Some(next[1])
                      /\ state'.editing_col = Some(next[2])
                      /\ state'.edit_buffer
                            = display(Unwrap(cell(state, next[1], next[2])), DisplayFull)
                      /\ state'.full_edit_mode <=>
                            (Len(state'.edit_buffer) > FullEditLen
                                \/ Contains(state'.edit_buffer, NL))
                 ELSE /\ state'.editing_row = state.editing_row
                      /\ state'.editing_col = state.editing_col]_vars

\* ------------------------------------------------------------------- C37
\* every command the owner has enqueued has been run by the worker loop
AllAcceptedExecuted == \A id \in 1..nsent : \E j \in 1..Len(attempts) : attempts[j] = id

(* C37: no accepted command is lost on quit: when the worker thread has
   terminated on Shutdown, every command enqueued before the Shutdown has
   been executed, so Worker::shutdown has returned only after all of them
   have run. *)
C37_NoCommandLostOnQuit ==
    /\ (uipc \in {"join", "exited"} /\ wpc = "done") => AllAcceptedExecuted
    /\ uipc = "exited" => (wpc = "done" /\ AllAcceptedExecuted)

\* the thread has ended on Shutdown after running everything that was sent,
\* an UpdateCell that changed the database included
C37_Witness ==
    /\ uipc = "join"
    /\ wpc = "done"
    /\ nsent >= 2
    /\ AllAcceptedExecuted
    /\ db # DbInitial

\* ------------------------------------------------------------------- C38
(* C38: the edit-mode fields stay consistent in every reachable state:
   full_edit_mode implies edit_mode; edit_mode holds exactly when editing_row
   and editing_col are both set; and edit_mode implies that the SQL editor is
   closed. *)
C38_EditFieldsConsistent ==
    /\ state.full_edit_mode => state.edit_mode
    /\ state.edit_mode <=> (IsSome(state.editing_row) /\ IsSome(state.editing_col))
    /\ state.edit_mode => ~state.show_sql_editor
\* the full editor is open on a cell the target was moved to
C38_Witness ==
    /\ state.full_edit_mode
    /\ state.edit_mode
    /\ state.editing_row = Some(1)
    /\ state.editing_col = Some(0)
    /\ ~state.show_sql_editor

\* ------------------------------------------------------------------- C39
\* this step is a call of draw_curved_arrow whose end points both lie inside
\* the drawing area
ConnectorRouted ==
    /\ frame' # frame
    /\ frame'.route # <<>>
    /\ InRect(<<frame'.route[1].x1, frame'.route[1].y1>>, frame.area)
    /\ InRect(<<frame'.route[1].x2, frame'.route[1].y2>>, frame.area)

(* C39: every connector that is routed ends in an arrow head: the cell at
   the terminal point of its path, the edge point computed on the target
   box, holds one of >, <, ^, v afterwards, chosen from the direction of the
   final step of the path. *)
C39_ConnectorEndsInArrowHead ==
    [][ConnectorRouted =>
          LET r == frame'.route[1]
              points == PathPoints(r.x1, r.y1, r.x2, r.y2)
              last == points[Len(points)]
              prev == points[Len(points) - 1]
              glyph == frame'.buf[<<r.x2, r.y2>>]
          IN /\ last = <<r.x2, r.y2>>
             /\ glyph \in ArrowHeads
             /\ glyph = ">" => last[1] > prev[1]
             /\ glyph = "<" => last[1] < prev[1]
             /\ glyph = "v" => last[2] > prev[2]
             /\ glyph = "^" => last[2] < prev[2]]_vars

\* ------------------------------------------------------------------- C40
\* blank, line, junction, arrow and diagonal glyphs
NeutralGlyphs == {Blank, HLine, VLine} \cup Junctions \cup ArrowHeads \cup Diagonals

\* cell p may not be touched by a call of draw_curved_arrow on this frame
Protected(p) ==
    \/ \E r \in frame.table_rects : InRect(p, r)
    \/ ~InRect(p, frame.area)
    \/ frame.buf[p] \notin NeutralGlyphs

(* C40: routing a connector never draws through a box or over foreign
   content: after draw_curved_arrow every cell inside any table rectangle,
   every cell outside the drawing area and every cell whose prior glyph is
   not a blank, line, junction, arrow or diagonal glyph is unchanged. *)
C40_RoutingSparesBoxesAndText ==
    [][frame' # frame =>
          \A p \in DOMAIN frame.buf : Protected(p) => frame'.buf[p] = frame.buf[p]]_vars

\* a connector has been drawn whose path crosses a cell of a box, a cell
\* outside the drawing area or its boxes that held a letter, and free cells
C40_Witness ==
    /\ frame # NoFrame
    /\ frame.route # <<>>
    /\ LET r == frame.route[1]
           points == PathPoints(r.x1, r.y1, r.x2, r.y2)
           on_path == {points[i] : i \in 1..Len(points)}
       IN /\ InRect(<<r.x1, r.y1>>, frame.area)
          /\ InRect(<<r.x2, r.y2>>, frame.area)
          /\ \E p \in on_path : \E t \in frame.table_rects : InRect(p, t)
          /\ \E p \in on_path :
                /\ InRect(p, frame.area)
                /\ ~\E t \in frame.table_rects : InRect(p, t)
                /\ frame.before[p] = Letter
                /\ frame.buf[p] = Letter
          /\ \E p \in on_path : frame.buf[p] # frame.before[p]

====
